---- MODULE Spec2Model ----
(***************************************************************************)
(* The lookup-and-ranking engine of japandict (japandict-core): the        *)
(* dictionary store, the three inverted indices behind their OnceLocks,    *)
(* the query classifier, the candidate generator, the feature extractor    *)
(* and scorer, and the ranker.                                             *)
(*                                                                         *)
(* A string is the sequence of its Unicode scalar values (a Rust &str seen *)
(* through chars()); its byte length is the length of its UTF-8 encoding.  *)
(* A HashMap<String, Vec<usize>> is a function from keys to sequences of   *)
(* entry ordinals; the order in which a HashMap is iterated is a free      *)
(* choice of each iteration.                                               *)
(***************************************************************************)
EXTENDS Integers, Sequences, FiniteSets, TLC

VARIABLES
    dict,            \* the words of the packed blob, in storage order
    strategy,        \* "parallel" (native) or "sequential" (wasm32)
    bpc,             \* position of build_search_indices
    english_handle,  \* result slot of the thread building the gloss index
    kanji_handle,    \* result slot of the thread building the kanji index
    kana_handle,     \* result slot of the thread building the kana index
    ENGLISH_INDEX,   \* OnceLock of the gloss index
    KANJI_INDEX,     \* OnceLock of the kanji index
    KANA_INDEX,      \* OnceLock of the kana index
    query,           \* argument of the last search_dictionary call
    results,         \* what that call returned
    path,            \* "none" | "empty" | "indexed" | "fallback"
    candidates,      \* indexed_candidates of that call
    index_read,      \* what OnceLock::get gave that call: "unread" | "unset" | "set"
    decoded,         \* get_word_entry calls made by that call
    evaluated,       \* evaluate_entry calls made by that call
    blob,            \* the arrays of dictionary_data, where they are looked into
    probe,           \* a direct call of one function: its argument and outcome
    jmdict,          \* the words and the limit given to the code generator
    app              \* the App of japandict-tui

vars == <<dict, strategy, bpc, english_handle, kanji_handle, kana_handle,
          ENGLISH_INDEX, KANJI_INDEX, KANA_INDEX,
          query, results, path, candidates, index_read, decoded, evaluated,
          blob, probe, jmdict, app>>

buildVars == <<strategy, bpc, english_handle, kanji_handle, kana_handle,
               ENGLISH_INDEX, KANJI_INDEX, KANA_INDEX>>

searchVars == <<query, results, path, candidates, index_read, decoded, evaluated>>

(***************************************************************************)
(* Integers and sequences                                                  *)
(***************************************************************************)
MinOf(a, b) == IF a <= b THEN a ELSE b

SetMin(S) == CHOOSE x \in S : \A y \in S : x <= y

SetMax(S) == CHOOSE x \in S : \A y \in S : y <= x

Range(s) == {s[i] : i \in DOMAIN s}

\* `for i in lo..hi { acc = Body(acc, i) }`, run in index order: the first
\* half of the range is run to its end, then the second half from there
RECURSIVE ForRange(_, _, _, _)
ForRange(Body(_, _), lo, hi, acc) ==
    IF lo >= hi THEN acc
    ELSE IF hi - lo = 1 THEN Body(acc, lo)
    ELSE CHOOSE done \in {ForRange(Body, (lo + hi) \div 2, hi, left) :
                            left \in {ForRange(Body, lo, (lo + hi) \div 2, acc)}} : TRUE

\* Vec::truncate(n) and Iterator::take(n)
Truncate(s, n) == SubSeq(s, 1, MinOf(n, Len(s)))

\* variant: the dedup left out
Dedup_asIs(s) == s

\* Vec::dedup: removes consecutive repeated elements
Dedup(s) ==
    LET ix == SelectSeq([i \in 1..Len(s) |-> i],
                        LAMBDA i : i = 1 \/ s[i] # s[i - 1])
    IN  [k \in 1..Len(ix) |-> s[ix[k]]]

IsSortedAsc(s) == \A i \in 1..(Len(s) - 1) : s[i] <= s[i + 1]

\* variant: the sort left out
SortUnstable_asIs(s) == s

\* slice::sort_unstable on Vec<usize>: the ascending arrangement of the same
\* elements (equal integers are indistinguishable, so stability is moot).
SortUnstable(s) ==
    IF IsSortedAsc(s) THEN s
    ELSE LET n == Len(s)
             rank == [i \in 1..n |->
                        Cardinality({j \in 1..n :
                            s[j] < s[i] \/ (s[j] = s[i] /\ j < i)}) + 1]
             at == [k \in 1..n |-> CHOOSE i \in 1..n : rank[i] = k]
         IN  [k \in 1..n |-> s[at[k]]]

\* every order in which the elements of S can be visited
RECURSIVE Orders(_)
Orders(S) ==
    IF S = {} THEN {<<>>}
    ELSE UNION {{<<x>> \o p : p \in Orders(S \ {x})} : x \in S}

(***************************************************************************)
(* Characters and strings (std::str, std::char)                            *)
(***************************************************************************)
\* char::is_whitespace: the Unicode White_Space property
IsWhitespace(c) ==
    \/ c \in 9..13
    \/ c \in {32, 133, 160, 5760, 8232, 8233, 8239, 8287, 12288}
    \/ c \in 8192..8202

\* char::is_alphabetic, on the Basic Latin, kana and CJK blocks
IsAlphabetic(c) ==
    \/ c \in 65..90
    \/ c \in 97..122
    \/ c \in 12353..12438
    \/ c \in 12445..12447
    \/ c \in 12449..12538
    \/ c \in 12540..12543
    \/ c \in 13312..19903
    \/ c \in 19968..40959

\* char::to_lowercase, on the Basic Latin and fullwidth Latin capitals (the
\* other characters used here have no lowercase mapping)
ToLowerChar(c) ==
    IF c \in 65..90 \/ c \in 65313..65338 THEN c + 32 ELSE c

\* str::to_lowercase
to_lowercase(s) == [i \in 1..Len(s) |-> ToLowerChar(s[i])]

\* number of bytes of the UTF-8 encoding of one scalar value
Utf8Len(c) ==
    IF c < 128 THEN 1 ELSE IF c < 2048 THEN 2 ELSE IF c < 65536 THEN 3 ELSE 4

\* str::len: the byte length
RECURSIVE ByteLen(_)
ByteLen(s) == IF s = <<>> THEN 0 ELSE Utf8Len(Head(s)) + ByteLen(Tail(s))

\* str::chars().count()
CharCount(s) == Len(s)

\* str::trim_matches, keep the positions of the characters that the pattern
\* does not match: the span from the first of them to the last
TrimTo(s, keep) ==
    IF keep = {} THEN <<>> ELSE SubSeq(s, SetMin(keep), SetMax(keep))

\* str::trim
Trim(s) == TrimTo(s, {i \in 1..Len(s) : ~IsWhitespace(s[i])})

\* word.trim_matches(|c: char| !c.is_alphabetic())
TrimNonAlphabetic(s) == TrimTo(s, {i \in 1..Len(s) : IsAlphabetic(s[i])})

\* str::starts_with(&str)
starts_with(s, p) == Len(p) <= Len(s) /\ SubSeq(s, 1, Len(p)) = p

\* str::ends_with(&str)
ends_with(s, p) ==
    Len(p) <= Len(s) /\ SubSeq(s, Len(s) - Len(p) + 1, Len(s)) = p

\* str::contains(&str)
contains(s, p) ==
    \E i \in 1..(Len(s) - Len(p) + 1) : SubSeq(s, i, i + Len(p) - 1) = p

\* str::split(char): the pieces between the separators, empty ones included
RECURSIVE split(_, _)
split(s, sep) ==
    LET at == {i \in 1..Len(s) : s[i] = sep}
    IN  IF at = {} THEN <<s>>
        ELSE LET i == SetMin(at)
             IN  <<SubSeq(s, 1, i - 1)>> \o split(SubSeq(s, i + 1, Len(s)), sep)

\* str::split_whitespace: the maximal runs of non-whitespace characters
RECURSIVE split_whitespace(_)
split_whitespace(s) ==
    LET starts == {i \in 1..Len(s) : ~IsWhitespace(s[i])}
    IN  IF starts = {} THEN <<>>
        ELSE LET b == SetMin(starts)
                 stops == {i \in b..Len(s) : IsWhitespace(s[i])}
                 e == IF stops = {} THEN Len(s) + 1 ELSE SetMin(stops)
             IN  <<SubSeq(s, b, e - 1)>>
                     \o split_whitespace(SubSeq(s, e, Len(s)))

\* Ord for str: lexicographic on the UTF-8 bytes, which is the lexicographic
\* order of the scalar values.  -1, 0, 1 for Less, Equal, Greater.
StrCmp(a, b) ==
    LET diff == {i \in 1..MinOf(Len(a), Len(b)) : a[i] # b[i]}
    IN  IF diff = {}
        THEN (IF Len(a) < Len(b) THEN -1 ELSE IF Len(a) > Len(b) THEN 1 ELSE 0)
        ELSE (IF a[SetMin(diff)] < b[SetMin(diff)] THEN -1 ELSE 1)

(***************************************************************************)
(* Dictionary store (dictionary.rs), at the level of the decoded words     *)
(***************************************************************************)
\* struct WordEntry
WordEntry(id, kanji, kana, english, pos, is_common) ==
    [id |-> id, kanji |-> kanji, kana |-> kana, english |-> english,
     pos |-> pos, is_common |-> is_common]

\* dictionary_data::WORD_COUNT
WORD_COUNT == Len(dict)

\* get_word_entry(index), index a zero-based ordinal
get_word_entry(index) == dict[index + 1]

(***************************************************************************)
(* Dictionary store (dictionary.rs), at the level of the packed arrays.    *)
(* b is the record of the statics and constants of dictionary_data.  A     *)
(* panic (an index or a slice out of range) is the outcome Fault.          *)
(***************************************************************************)
Fault == [fault |-> TRUE]

Ok(v) == [fault |-> FALSE, value |-> v]

\* the UTF-8 encoding of one scalar value and of a string (str::as_bytes)
Utf8Char(c) ==
    IF c < 128 THEN <<c>>
    ELSE IF c < 2048 THEN <<192 + (c \div 64), 128 + (c % 64)>>
    ELSE IF c < 65536
    THEN <<224 + (c \div 4096), 128 + ((c \div 64) % 64), 128 + (c % 64)>>
    ELSE <<240 + (c \div 262144), 128 + ((c \div 4096) % 64),
           128 + ((c \div 64) % 64), 128 + (c % 64)>>

RECURSIVE as_bytes(_)
as_bytes(s) == IF s = <<>> THEN <<>> ELSE Utf8Char(Head(s)) \o as_bytes(Tail(s))

\* std::str::from_utf8_unchecked seen through chars(), on bytes that are
\* well-formed UTF-8
RECURSIVE from_utf8_unchecked(_)
from_utf8_unchecked(bytes) ==
    IF bytes = <<>> THEN <<>>
    ELSE LET b1 == bytes[1]
             n == IF b1 < 128 THEN 1 ELSE IF b1 < 224 THEN 2
                  ELSE IF b1 < 240 THEN 3 ELSE 4
             c == IF n = 1 THEN b1
                  ELSE IF n = 2 THEN (b1 - 192) * 64 + (bytes[2] - 128)
                  ELSE IF n = 3
                  THEN (b1 - 224) * 4096 + (bytes[2] - 128) * 64 + (bytes[3] - 128)
                  ELSE (b1 - 240) * 262144 + (bytes[2] - 128) * 4096
                           + (bytes[3] - 128) * 64 + (bytes[4] - 128)
         IN  <<c>> \o from_utf8_unchecked(SubSeq(bytes, n + 1, Len(bytes)))

\* read_string: the bytes from offset up to the next 0 or the end of the
\* pool; the slice start..end panics when offset is past the end
read_string(b, offset) ==
    LET pool == b.JMDICT_STRINGS
        stops == {e \in (offset + 1)..Len(pool) : pool[e] = 0}
        end == IF stops = {} THEN Len(pool) ELSE SetMin(stops) - 1
    IN  IF offset > Len(pool) THEN Fault
        ELSE Ok(from_utf8_unchecked(SubSeq(pool, offset + 1, end)))

\* variant: the four bytes read most significant first (u32::from_be_bytes)
from_be_bytes(data, pos) ==
    data[pos + 4] + 256 * data[pos + 3] + 65536 * data[pos + 2]
        + 16777216 * data[pos + 1]

\* u32::from_le_bytes([data[pos], data[pos + 1], data[pos + 2], data[pos + 3]])
from_le_bytes(data, pos) ==
    data[pos + 1] + 256 * data[pos + 2] + 65536 * data[pos + 3]
        + 16777216 * data[pos + 4]

\* one of the four loops of get_word_entry: count indices read from pos on,
\* each resolved through JMDICT_STRING_OFFSETS and read_string
ReadStrings(b, data, pos, count) ==
    LET idx == [k \in 1..count |-> from_le_bytes(data, pos + 4 * (k - 1))]
        read == [k \in 1..count |->
                    read_string(b, b.JMDICT_STRING_OFFSETS[idx[k] + 1])]
    IN  IF pos + 4 * count > Len(data) THEN Fault
        ELSE IF \E k \in 1..count : idx[k] >= Len(b.JMDICT_STRING_OFFSETS)
        THEN Fault
        ELSE IF \E k \in 1..count : read[k].fault THEN Fault
        ELSE Ok([k \in 1..count |-> read[k].value])

\* get_word_entry past the count bytes: data is the record and what follows
DecodeRecord(b, data) ==
    LET id_idx == from_le_bytes(data, 0)
        kanji_count == data[5]
        kana_count == data[6]
        english_count == data[7]
        pos_count == data[8]
        is_common == data[9] # 0
        kanji == ReadStrings(b, data, 9, kanji_count)
        kana == ReadStrings(b, data, 9 + 4 * kanji_count, kana_count)
        english == ReadStrings(b, data, 9 + 4 * (kanji_count + kana_count),
                               english_count)
        pos_vec == ReadStrings(b, data,
                               9 + 4 * (kanji_count + kana_count + english_count),
                               pos_count)
        id_offset_base == b.KANJI_STRINGS_COUNT + b.KANA_STRINGS_COUNT
                              + b.ENGLISH_STRINGS_COUNT + b.POS_STRINGS_COUNT
        id_slot == id_offset_base + id_idx
        id == IF id_slot >= Len(b.JMDICT_STRING_OFFSETS) THEN Fault
              ELSE read_string(b, b.JMDICT_STRING_OFFSETS[id_slot + 1])
    IN  IF kanji.fault \/ kana.fault \/ english.fault \/ pos_vec.fault \/ id.fault
        THEN Fault
        ELSE Ok(WordEntry(id.value, kanji.value, kana.value, english.value,
                          pos_vec.value, is_common))

\* get_word_entry(index) over the arrays of b
get_word_entry_in(b, index) ==
    IF index >= Len(b.JMDICT_ENTRY_OFFSETS) THEN Fault
    ELSE LET offset == b.JMDICT_ENTRY_OFFSETS[index + 1]
         IN  IF offset > Len(b.JMDICT_ENTRIES) THEN Fault
             ELSE IF Len(b.JMDICT_ENTRIES) - offset < 9 THEN Fault
             ELSE DecodeRecord(b, SubSeq(b.JMDICT_ENTRIES, offset + 1,
                                         Len(b.JMDICT_ENTRIES)))

(***************************************************************************)
(* Code generator (jmdict-codegen/src/main.rs): from the words of the      *)
(* JMdict file to the arrays of dictionary_data.  An absent Option field   *)
(* (kanji, partOfSpeech, common) is the empty sequence or FALSE, which     *)
(* the generator treats alike.                                             *)
(***************************************************************************)
\* struct Word, struct KanjiEntry / KanaEntry, struct Sense, struct Gloss
Word(id, kanji, kana, sense) ==
    [id |-> id, kanji |-> kanji, kana |-> kana, sense |-> sense]

Form(text, common) == [text |-> text, common |-> common]

Sense(gloss, part_of_speech) == [gloss |-> gloss, part_of_speech |-> part_of_speech]

Gloss(lang, text) == [lang |-> lang, text |-> text]

\* get_or_insert: the index returned, and the Vec of strings afterwards
PoolIndex(strings, str) ==
    IF \E i \in 1..Len(strings) : strings[i] = str
    THEN (CHOOSE i \in 1..Len(strings) : strings[i] = str) - 1
    ELSE Len(strings)

PoolInsert(strings, str) ==
    IF \E i \in 1..Len(strings) : strings[i] = str THEN strings
    ELSE Append(strings, str)

\* get_or_insert for each string of a sequence in turn
InsertEach(strings, texts) ==
    LET Body(acc, k) ==
            [strings |-> PoolInsert(acc.strings, texts[k]),
             indices |-> Append(acc.indices, PoolIndex(acc.strings, texts[k]))]
    IN  ForRange(Body, 1, Len(texts) + 1, [strings |-> strings, indices |-> <<>>])

\* "eng"
ENG == <<101, 110, 103>>

\* the texts of the glosses of one sense with lang == "eng"
EngTexts(sense) ==
    LET eng == SelectSeq(sense.gloss, LAMBDA g : g.lang = ENG)
    IN  [k \in 1..Len(eng) |-> eng[k].text]

\* the glosses pushed for a word: those of its senses, in order
RECURSIVE SenseGlosses(_)
SenseGlosses(senses) ==
    IF senses = <<>> THEN <<>>
    ELSE EngTexts(Head(senses)) \o SenseGlosses(Tail(senses))

\* the tags pushed for a word: those of the first sense that, met with
\* pos_indices still empty, has any
RECURSIVE SenseTags(_)
SenseTags(senses) ==
    IF senses = <<>> THEN <<>>
    ELSE IF Head(senses).part_of_speech # <<>> THEN Head(senses).part_of_speech
    ELSE SenseTags(Tail(senses))

Texts(forms) == [k \in 1..Len(forms) |-> forms[k].text]

\* any kanji or kana entry marked as common
WordIsCommon(word) ==
    \/ \E k \in 1..Len(word.kanji) : word.kanji[k].common
    \/ \E k \in 1..Len(word.kana) : word.kana[k].common

\* the pools before the first word
EmptyPools ==
    [kanji_strings |-> <<>>, kana_strings |-> <<>>, english_strings |-> <<>>,
     pos_strings |-> <<>>, id_strings |-> <<>>, word_entries |-> <<>>]

\* one turn of the loop over words_to_process
PoolWord(acc, word) ==
    LET id == InsertEach(acc.id_strings, <<word.id>>)
        kanji == InsertEach(acc.kanji_strings, Texts(word.kanji))
        kana == InsertEach(acc.kana_strings, Texts(word.kana))
        english == InsertEach(acc.english_strings, SenseGlosses(word.sense))
        pos == InsertEach(acc.pos_strings, SenseTags(word.sense))
    IN  [kanji_strings |-> kanji.strings, kana_strings |-> kana.strings,
         english_strings |-> english.strings, pos_strings |-> pos.strings,
         id_strings |-> id.strings,
         word_entries |-> Append(acc.word_entries,
             [id_idx |-> id.indices[1], kanji_indices |-> kanji.indices,
              kana_indices |-> kana.indices, english_indices |-> english.indices,
              pos_indices |-> pos.indices, is_common |-> WordIsCommon(word)])]

RECURSIVE PoolWords(_, _)
PoolWords(acc, words) ==
    IF words = <<>> THEN acc
    ELSE PoolWords(PoolWord(acc, Head(words)), Tail(words))

\* the loop that packs all strings into one byte array
RECURSIVE PackStrings(_, _)
PackStrings(acc, strings) ==
    IF strings = <<>> THEN acc
    ELSE PackStrings(
             [strings_data |-> acc.strings_data \o as_bytes(Head(strings)) \o <<0>>,
              string_offsets |-> Append(acc.string_offsets, Len(acc.strings_data))],
             Tail(strings))

\* variant: the four bytes written most significant first (u32::to_be_bytes)
to_be_bytes(n) ==
    <<(n \div 16777216) % 256, (n \div 65536) % 256, (n \div 256) % 256, n % 256>>

\* u32::to_le_bytes
to_le_bytes(n) ==
    <<n % 256, (n \div 256) % 256, (n \div 65536) % 256, (n \div 16777216) % 256>>

\* `as u8`
AsU8(n) == n % 256

\* (base + idx).to_le_bytes() for each index; the sum is the position of a
\* string among all the strings and stays far below 2^32
PackIndices(base, indices) ==
    LET Body(acc, k) == acc \o to_le_bytes(base + indices[k])
    IN  ForRange(Body, 1, Len(indices) + 1, <<>>)

\* the bytes of one entry record
PackEntry(pools, e) ==
    LET kanji_base == 0
        kana_base == Len(pools.kanji_strings)
        english_base == kana_base + Len(pools.kana_strings)
        pos_base == english_base + Len(pools.english_strings)
    IN  to_le_bytes(e.id_idx)
            \o <<AsU8(Len(e.kanji_indices)), AsU8(Len(e.kana_indices)),
                 AsU8(Len(e.english_indices)), AsU8(Len(e.pos_indices)),
                 IF e.is_common THEN 1 ELSE 0>>
            \o PackIndices(kanji_base, e.kanji_indices)
            \o PackIndices(kana_base, e.kana_indices)
            \o PackIndices(english_base, e.english_indices)
            \o PackIndices(pos_base, e.pos_indices)

\* the loop that packs the entries
RECURSIVE PackEntries(_, _, _)
PackEntries(acc, pools, entries) ==
    IF entries = <<>> THEN acc
    ELSE PackEntries(
             [entries_data |-> acc.entries_data \o PackEntry(pools, Head(entries)),
              entry_offsets |-> Append(acc.entry_offsets, Len(acc.entries_data))],
             pools, Tail(entries))

\* main, from the parsed words to the generated statics and constants; limit
\* is the effective limit, 0 for none
pack(words, limit) ==
    LET words_to_process == SelectSeq(words, WordIsCommon)
                                \o SelectSeq(words, LAMBDA w : ~WordIsCommon(w))
        word_count == IF limit > 0 THEN MinOf(limit, Len(words_to_process))
                      ELSE Len(words_to_process)
        pools == PoolWords(EmptyPools, SubSeq(words_to_process, 1, word_count))
        packed_strings ==
            PackStrings([strings_data |-> <<>>, string_offsets |-> <<>>],
                        pools.kanji_strings \o pools.kana_strings
                            \o pools.english_strings \o pools.pos_strings
                            \o pools.id_strings)
        packed_entries ==
            PackEntries([entries_data |-> <<>>, entry_offsets |-> <<>>],
                        pools, pools.word_entries)
    IN  [JMDICT_STRINGS |-> packed_strings.strings_data,
         JMDICT_ENTRIES |-> packed_entries.entries_data,
         JMDICT_ENTRY_OFFSETS |-> packed_entries.entry_offsets,
         JMDICT_STRING_OFFSETS |-> packed_strings.string_offsets,
         KANJI_STRINGS_COUNT |-> Len(pools.kanji_strings),
         KANA_STRINGS_COUNT |-> Len(pools.kana_strings),
         ENGLISH_STRINGS_COUNT |-> Len(pools.english_strings),
         POS_STRINGS_COUNT |-> Len(pools.pos_strings),
         ID_STRINGS_COUNT |-> Len(pools.id_strings),
         WORD_COUNT |-> Len(pools.word_entries)]

(***************************************************************************)
(* Index builder (search.rs)                                               *)
(***************************************************************************)
\* OnceLock::new() and a OnceLock after a successful set(v)
Unset == [set |-> FALSE, value |-> <<>>]

SetTo(v) == [set |-> TRUE, value |-> v]

\* normalize_query: trim, then lowercase
normalize_query(q) == to_lowercase(Trim(q))

\* variant: index.insert(key, vec![idx]), which drops the ids already there
Push_insert(index, key, idx) ==
    IF key \in DOMAIN index
    THEN [index EXCEPT ![key] = <<idx>>]
    ELSE index @@ (key :> <<idx>>)

\* index.entry(key).or_default().push(idx)
Push(index, key, idx) ==
    IF key \in DOMAIN index
    THEN [index EXCEPT ![key] = Append(@, idx)]
    ELSE index @@ (key :> <<idx>>)

\* the keys build_english_index pushes an entry under for one gloss, in the
\* order of the pushes
LongWords(words) == SelectSeq(words, LAMBDA w : ByteLen(w) > 1)

RECURSIVE MeaningKeys(_)
MeaningKeys(meanings) ==
    IF meanings = <<>> THEN <<>>
    ELSE LET meaning == Trim(Head(meanings))
             words == split_whitespace(meaning)
         IN  (IF meaning # <<>>
              THEN <<meaning>> \o
                   (IF words # <<>> /\ ByteLen(Head(words)) > 1
                    THEN <<Head(words)>> ELSE <<>>)
              ELSE <<>>)
             \o MeaningKeys(Tail(meanings))

GlossKeys(english) ==
    LET normalized == normalize_query(english)
    IN  <<normalized>>
            \o LongWords(split_whitespace(normalized))
            \o MeaningKeys(split(normalized, 59))

RECURSIVE PushAll(_, _, _)
PushAll(index, keys, idx) ==
    IF keys = <<>> THEN index
    ELSE PushAll(Push(index, Head(keys), idx), Tail(keys), idx)

RECURSIVE ConcatGlossKeys(_)
ConcatGlossKeys(glosses) ==
    IF glosses = <<>> THEN <<>>
    ELSE GlossKeys(Head(glosses)) \o ConcatGlossKeys(Tail(glosses))

\* the closing loop of build_english_index: sort_unstable and dedup each Vec
SortDedupValues(index) ==
    [k \in DOMAIN index |-> Dedup(SortUnstable(index[k]))]

EnglishBody(index, idx) ==
    PushAll(index, ConcatGlossKeys(get_word_entry(idx).english), idx)

build_english_index == SortDedupValues(ForRange(EnglishBody, 0, WORD_COUNT, <<>>))

KanjiBody(index, idx) == PushAll(index, get_word_entry(idx).kanji, idx)

build_kanji_index == ForRange(KanjiBody, 0, WORD_COUNT, <<>>)

KanaBody(index, idx) == PushAll(index, get_word_entry(idx).kana, idx)

\* variant: the loop stops one entry short, the index partially populated
build_kana_index_partial == ForRange(KanaBody, 0, WORD_COUNT - 1, <<>>)

build_kana_index == ForRange(KanaBody, 0, WORD_COUNT, <<>>)

(***************************************************************************)
(* Query classifier, feature extractor and scorer (search.rs)              *)
(***************************************************************************)
\* Features::default()
DefaultFeatures ==
    [exact_form |-> FALSE, exact_reading |-> FALSE, prefix |-> FALSE,
     edit_distance |-> 0, has_common |-> FALSE, shorter_lemma |-> FALSE,
     gloss_hit |-> FALSE, first_gloss |-> FALSE, exact_english |-> FALSE,
     learner_friendly |-> FALSE, simple_form |-> FALSE]

\* variant: the exact_english term left out
score_features_noExactEnglish(features) ==
      (IF features.exact_form THEN 100 ELSE 0)
    + (IF features.exact_reading THEN 95 ELSE 0)
    + (IF features.first_gloss THEN 200 ELSE 0)
    + (IF features.has_common THEN 50 ELSE 0)
    + (IF features.prefix THEN 30 ELSE 0)
    + (IF features.gloss_hit /\ ~features.first_gloss THEN 10 ELSE 0)
    + (IF features.simple_form THEN 25 ELSE 0)
    + (IF features.shorter_lemma THEN 5 ELSE 0)
    - 2 * features.edit_distance

\* variant: exact_form weighed 10 instead of 100
score_features_exactForm10(features) ==
      (IF features.exact_form THEN 10 ELSE 0)
    + (IF features.exact_reading THEN 95 ELSE 0)
    + (IF features.exact_english THEN 250 ELSE 0)
    + (IF features.first_gloss THEN 200 ELSE 0)
    + (IF features.has_common THEN 50 ELSE 0)
    + (IF features.prefix THEN 30 ELSE 0)
    + (IF features.gloss_hit /\ ~features.first_gloss THEN 10 ELSE 0)
    + (IF features.simple_form THEN 25 ELSE 0)
    + (IF features.shorter_lemma THEN 5 ELSE 0)
    - 2 * features.edit_distance

\* score_features; the f32 sums are sums of small integers and so exact
score_features(features) ==
      (IF features.exact_form THEN 100 ELSE 0)
    + (IF features.exact_reading THEN 95 ELSE 0)
    + (IF features.exact_english THEN 250 ELSE 0)
    + (IF features.first_gloss THEN 200 ELSE 0)
    + (IF features.has_common THEN 50 ELSE 0)
    + (IF features.prefix THEN 30 ELSE 0)
    + (IF features.gloss_hit /\ ~features.first_gloss THEN 10 ELSE 0)
    + (IF features.simple_form THEN 25 ELSE 0)
    + (IF features.shorter_lemma THEN 5 ELSE 0)
    - 2 * features.edit_distance

\* variant: the kana test decides before the kanji test
detect_query_type_kanaFirst(q) ==
    LET has_kanji == \E i \in 1..Len(q) : q[i] \in 19968..40879
        has_kana == \E i \in 1..Len(q) :
                        q[i] \in 12352..12447 \/ q[i] \in 12448..12543
    IN  IF has_kanji \/ has_kana
        THEN (IF has_kana THEN "Kana" ELSE "Kanji")
        ELSE "English"

\* detect_query_type
detect_query_type(q) ==
    LET has_kanji == \E i \in 1..Len(q) : q[i] \in 19968..40879
        has_kana == \E i \in 1..Len(q) :
                        q[i] \in 12352..12447 \/ q[i] \in 12448..12543
    IN  IF has_kanji \/ has_kana
        THEN (IF has_kanji THEN "Kanji" ELSE "Kana")
        ELSE "English"

\* the literals of detect_simple_form: "adj-i", and the suffix as the source
\* file spells it (U+201E U+00C5 U+00D1)
ADJ_I == <<97, 100, 106, 45, 105>>

I_SUFFIX == <<8222, 197, 209>>

\* detect_simple_form
detect_simple_form(entry) ==
    IF /\ \E i \in 1..Len(entry.pos) : contains(entry.pos[i], ADJ_I)
       /\ \E i \in 1..Len(entry.kanji) : ends_with(entry.kanji[i], I_SUFFIX)
    THEN TRUE
    ELSE LET has_simple_kanji ==
                 \E i \in 1..Len(entry.kanji) : CharCount(entry.kanji[i]) <= 2
             has_simple_kana ==
                 \E i \in 1..Len(entry.kana) : CharCount(entry.kana[i]) <= 4
         IN  has_simple_kanji \/ has_simple_kana

\* variant: the early exit compares lengths in characters
simple_edit_distance_charLengths(a, b) ==
    IF a = b THEN 0
    ELSE IF Len(a) - Len(b) > 2 \/ Len(b) - Len(a) > 2 THEN 3
    ELSE LET long == IF Len(a) < Len(b) THEN b ELSE a
             short == IF Len(a) < Len(b) THEN a ELSE b
             diff == Cardinality({i \in 1..Len(short) : long[i] # short[i]})
         IN  MinOf(diff + (Len(long) - Len(short)), 3)

\* simple_edit_distance; the early exit compares byte lengths, the count
\* runs over characters.  Swapping the shorter string second changes none of
\* the tests before it, so the recursive call is unfolded.
simple_edit_distance(a, b) ==
    IF a = b THEN 0
    ELSE IF ByteLen(a) - ByteLen(b) > 2 \/ ByteLen(b) - ByteLen(a) > 2 THEN 3
    ELSE LET long == IF Len(a) < Len(b) THEN b ELSE a
             short == IF Len(a) < Len(b) THEN a ELSE b
             diff == Cardinality({i \in 1..Len(short) : long[i] # short[i]})
         IN  MinOf(diff + (Len(long) - Len(short)), 3)

\* evaluate_entry, Kanji arm: the loop over entry.kanji
RECURSIVE KanjiFormLoop(_, _, _)
KanjiFormLoop(forms, nq, f) ==
    IF forms = <<>> THEN f
    ELSE LET kanji == to_lowercase(Head(forms))
         IN  IF kanji = nq THEN [f EXCEPT !.exact_form = TRUE]
             ELSE KanjiFormLoop(Tail(forms), nq,
                      IF starts_with(kanji, nq)
                      THEN [f EXCEPT !.prefix = TRUE] ELSE f)

\* evaluate_entry, Kanji arm: the loop over entry.kana
RECURSIVE KanjiReadingLoop(_, _, _)
KanjiReadingLoop(forms, nq, f) ==
    IF forms = <<>> THEN f
    ELSE IF to_lowercase(Head(forms)) = nq
         THEN [f EXCEPT !.exact_reading = TRUE]
         ELSE KanjiReadingLoop(Tail(forms), nq, f)

\* variant: every form within distance 2 overwrites edit_distance
RECURSIVE KanaLoop_lastWins(_, _, _)
KanaLoop_lastWins(forms, nq, f) ==
    IF forms = <<>> THEN f
    ELSE LET kana_lower == to_lowercase(Head(forms))
             dist == simple_edit_distance(kana_lower, nq)
             f1 == IF starts_with(kana_lower, nq)
                   THEN [f EXCEPT !.prefix = TRUE] ELSE f
             f2 == IF dist <= 2
                   THEN [f1 EXCEPT !.edit_distance = dist] ELSE f1
         IN  IF kana_lower = nq THEN [f EXCEPT !.exact_reading = TRUE]
             ELSE KanaLoop_lastWins(Tail(forms), nq, f2)

\* evaluate_entry, Kana arm
RECURSIVE KanaLoop(_, _, _)
KanaLoop(forms, nq, f) ==
    IF forms = <<>> THEN f
    ELSE LET kana_lower == to_lowercase(Head(forms))
             dist == simple_edit_distance(kana_lower, nq)
             f1 == IF starts_with(kana_lower, nq)
                   THEN [f EXCEPT !.prefix = TRUE] ELSE f
             f2 == IF dist <= 2 /\ f1.edit_distance = 0
                   THEN [f1 EXCEPT !.edit_distance = dist] ELSE f1
         IN  IF kana_lower = nq THEN [f EXCEPT !.exact_reading = TRUE]
             ELSE KanaLoop(Tail(forms), nq, f2)

\* "to "
TO == <<116, 111>>

TO_SPACE == <<116, 111, 32>>

\* evaluate_entry, English arm: the loop over the meanings of one gloss
RECURSIVE MeaningLoop(_, _, _, _, _)
MeaningLoop(meanings, i, is_very_first, nq, f) ==
    IF meanings = <<>> THEN f
    ELSE LET clean_meaning == Trim(Head(meanings))
             is_first_meaning == is_very_first /\ i = 0
             words == split_whitespace(clean_meaning)
             Hit(exact) == [f EXCEPT !.gloss_hit = TRUE,
                                     !.exact_english = @ \/ exact,
                                     !.first_gloss = @ \/ is_first_meaning]
         IN  IF clean_meaning = nq THEN Hit(TRUE)
             ELSE IF clean_meaning = TO_SPACE \o nq THEN Hit(TRUE)
             ELSE IF words # <<>> /\ TrimNonAlphabetic(words[1]) = nq
                  THEN Hit(Len(words) = 1)
             ELSE IF /\ Len(words) >= 2
                     /\ words[1] = TO
                     /\ TrimNonAlphabetic(words[2]) = nq
                  THEN Hit(Len(words) = 2)
             ELSE MeaningLoop(Tail(meanings), i + 1, is_very_first, nq,
                      IF \E w \in 1..Len(words) :
                             TrimNonAlphabetic(words[w]) = nq
                      THEN [f EXCEPT !.gloss_hit = TRUE] ELSE f)

\* evaluate_entry, English arm: the loop over entry.english
RECURSIVE GlossLoop(_, _, _, _)
GlossLoop(glosses, is_very_first, nq, f) ==
    IF glosses = <<>> THEN f
    ELSE LET f1 == MeaningLoop(split(to_lowercase(Head(glosses)), 59), 0,
                               is_very_first, nq, f)
         IN  IF f1.first_gloss THEN f1
             ELSE GlossLoop(Tail(glosses), FALSE, nq, f1)

\* Option<SearchResult>
None == <<>>

Some(x) == <<x>>

\* variant: the edit_distance test left out
NoMatch_ignoringDistance(features) ==
    /\ ~features.exact_form
    /\ ~features.exact_reading
    /\ ~features.prefix
    /\ ~features.gloss_hit

\* the test of evaluate_entry that drops an entry with no match signal
NoMatch(features) ==
    /\ ~features.exact_form
    /\ ~features.exact_reading
    /\ ~features.prefix
    /\ ~features.gloss_hit
    /\ features.edit_distance = 0

\* evaluate_entry
evaluate_entry(entry, q, query_type) ==
    LET normalized_query == normalize_query(q)
        matched ==
            IF query_type = "Kanji"
            THEN KanjiReadingLoop(entry.kana, normalized_query,
                     KanjiFormLoop(entry.kanji, normalized_query, DefaultFeatures))
            ELSE IF query_type = "Kana"
            THEN KanaLoop(entry.kana, normalized_query, DefaultFeatures)
            ELSE GlossLoop(entry.english, TRUE, normalized_query, DefaultFeatures)
        features ==
            [matched EXCEPT
                !.has_common = entry.is_common,
                !.shorter_lemma =
                    \/ \E i \in 1..Len(entry.kanji) : CharCount(entry.kanji[i]) <= 2
                    \/ \E i \in 1..Len(entry.kana) : CharCount(entry.kana[i]) <= 3,
                !.simple_form = detect_simple_form(entry)]
    IN  IF NoMatch(matched) THEN None
        ELSE Some([entry |-> entry, score |-> score_features(features),
                   features |-> features])

(***************************************************************************)
(* Candidate generator and ranker (search.rs)                              *)
(***************************************************************************)
\* candidates.truncate(1000)
CANDIDATE_CAP == 1000

\* WORD_COUNT.min(5000)
FALLBACK_SCAN_CAP == 5000

\* if results.len() >= 200 { break; }
FALLBACK_MATCH_CAP == 200

\* .take(50)
RESULT_CAP == 50

\* the OnceLock find_indexed_entries reads for a query type
IndexFor(query_type) ==
    IF query_type = "English" THEN ENGLISH_INDEX
    ELSE IF query_type = "Kanji" THEN KANJI_INDEX
    ELSE KANA_INDEX

\* variant: the keys equal to the query only, the starts_with test left out
ScannedKeys_exactOnly(q, query_type) ==
    LET normalized_query == normalize_query(q)
        lock == IndexFor(query_type)
        index == lock.value
    IN  IF ~lock.set THEN {}
        ELSE IF query_type = "English"
        THEN (IF normalized_query \in DOMAIN index THEN {}
              ELSE {word \in DOMAIN index :
                        starts_with(word, normalized_query)
                            /\ word # normalized_query})
        ELSE {k \in DOMAIN index : k = normalized_query}

\* the keys whose Vec a scan of the HashMap extends the candidates with: for
\* an English query the proper extensions of the normalized query, and only
\* when the exact lookup gave nothing; for the other two the keys that start
\* with it
ScannedKeys(q, query_type) ==
    LET normalized_query == normalize_query(q)
        lock == IndexFor(query_type)
        index == lock.value
    IN  IF ~lock.set THEN {}
        ELSE IF query_type = "English"
        THEN (IF normalized_query \in DOMAIN index THEN {}
              ELSE {word \in DOMAIN index :
                        starts_with(word, normalized_query)
                            /\ word # normalized_query})
        ELSE {k \in DOMAIN index :
                  k = normalized_query \/ starts_with(k, normalized_query)}

\* candidates.extend_from_slice(indices) for each key in visiting order
RECURSIVE ExtendFrom(_, _)
ExtendFrom(index, order) ==
    IF order = <<>> THEN <<>>
    ELSE index[Head(order)] \o ExtendFrom(index, Tail(order))

\* variant: the scan for longer keys left out of the English arm
RawCandidates_exactOnly(q, query_type, order) ==
    LET normalized_query == normalize_query(q)
        lock == IndexFor(query_type)
        index == lock.value
    IN  IF ~lock.set THEN <<>>
        ELSE IF query_type = "English"
        THEN (IF normalized_query \in DOMAIN index
              THEN index[normalized_query] ELSE <<>>)
        ELSE ExtendFrom(index, order)

\* the candidates before the closing sort, dedup and truncate
RawCandidates(q, query_type, order) ==
    LET normalized_query == normalize_query(q)
        lock == IndexFor(query_type)
        index == lock.value
    IN  IF ~lock.set THEN <<>>
        ELSE IF query_type = "English" /\ normalized_query \in DOMAIN index
        THEN index[normalized_query]
        ELSE ExtendFrom(index, order)

\* variant: the truncate left out
TruncateCandidates_all(c) == c

\* candidates.truncate(1000)
TruncateCandidates(c) == Truncate(c, CANDIDATE_CAP)

\* find_indexed_entries; order is the order in which the scan of the HashMap
\* meets the keys of ScannedKeys
find_indexed_entries(q, query_type, order) ==
    TruncateCandidates(Dedup(SortUnstable(RawCandidates(q, query_type, order))))

\* minimum byte length over the kanji and kana forms, 100 if there is none
MinFormLen(entry) ==
    LET forms == entry.kanji \o entry.kana
    IN  IF forms = <<>> THEN 100
        ELSE SetMin({ByteLen(forms[i]) : i \in 1..Len(forms)})

\* first kanji form, else first kana form, else ""
FirstForm(entry) ==
    IF entry.kanji # <<>> THEN Head(entry.kanji)
    ELSE IF entry.kana # <<>> THEN Head(entry.kana)
    ELSE <<>>

\* what the comparator reads of a SearchResult
RankKey(r) ==
    [score |-> r.score, is_common |-> r.entry.is_common,
     len |-> MinFormLen(r.entry), key |-> FirstForm(r.entry)]

\* variant: the commonness comparison with a and b exchanged
\* (a.entry.is_common.cmp(&b.entry.is_common))
RankCmp_commonLast(a, b) ==
    IF b.score # a.score THEN (IF b.score < a.score THEN -1 ELSE 1)
    ELSE IF b.is_common # a.is_common THEN (IF b.is_common THEN -1 ELSE 1)
    ELSE IF a.len # b.len THEN (IF a.len < b.len THEN -1 ELSE 1)
    ELSE StrCmp(a.key, b.key)

\* the closure given to sort_by, on the RankKeys of a and b: -1 when a sorts
\* before b, 1 when after, 0 when the closure returns Equal
RankCmp(a, b) ==
    IF b.score # a.score THEN (IF b.score < a.score THEN -1 ELSE 1)
    ELSE IF b.is_common # a.is_common THEN (IF a.is_common THEN -1 ELSE 1)
    ELSE IF a.len # b.len THEN (IF a.len < b.len THEN -1 ELSE 1)
    ELSE StrCmp(a.key, b.key)

\* slice::sort_by: a stable sort, so elements the closure calls Equal keep
\* their order.  The closure returns Equal exactly for equal RankKeys, so the
\* sorted Vec is the groups of equal RankKey, laid out in the closure's order
\* of their keys, each group in its original order.
SortByRank(rs) ==
    LET n == Len(rs)
        keys == [i \in 1..n |-> RankKey(rs[i])] \o <<>>
        K == Range(keys)
        nth == [p \in 1..Cardinality(K) |->
                    CHOOSE k \in K :
                        Cardinality({l \in K : RankCmp(l, k) < 0}) = p - 1]
        Group(p) == SelectSeq(rs, LAMBDA r : RankKey(r) = nth[p])
        AppendGroup(acc, p) == acc \o Group(p)
    IN  ForRange(AppendGroup, 1, Cardinality(K) + 1, <<>>)

\* variant: the take left out
TakeResults_all(rs) == rs

\* .take(50)
TakeResults(rs) == Truncate(rs, RESULT_CAP)

\* variant: query.is_empty(), the trim left out
IsBlank_untrimmed(q) == q = <<>>

\* query.trim().is_empty()
IsBlank(q) == Trim(q) = <<>>

\* variant: the break at 200 matches left out
Scanned_noBreak(acc, r) ==
    [results |-> acc.results \o r,
     evaluated |-> acc.evaluated + 1,
     done |-> FALSE]

\* one turn of the fallback loop of search_dictionary, r what evaluate_entry
\* gave: a match is pushed, and the loop breaks at 200 matches
Scanned(acc, r) ==
    [results |-> acc.results \o r,
     evaluated |-> acc.evaluated + 1,
     done |-> r # None /\ Len(acc.results) + 1 >= FALLBACK_MATCH_CAP]

\* the loop of search_dictionary over the candidates, or over the head of
\* the store when there is none: the matches in the order found, and how
\* many entries were decoded and scored
Scan(q, query_type, indexed_candidates) ==
    LET IndexedBody(acc, i) ==
            acc \o evaluate_entry(get_word_entry(indexed_candidates[i]),
                                  q, query_type)
        FallbackBody(acc, i) ==
            IF acc.done THEN acc
            ELSE Scanned(acc, evaluate_entry(get_word_entry(i), q, query_type))
    IN  IF indexed_candidates # <<>>
        THEN [results |-> ForRange(IndexedBody, 1, Len(indexed_candidates) + 1, <<>>),
              evaluated |-> Len(indexed_candidates)]
        ELSE ForRange(FallbackBody, 0, MinOf(WORD_COUNT, FALLBACK_SCAN_CAP),
                      [results |-> <<>>, evaluated |-> 0, done |-> FALSE])

\* .map(|result| result.entry).collect()
Entries(rs) == [k \in 1..Len(rs) |-> rs[k].entry]

\* the sort and the cut of the matches; with them, what the call did
Answer(query_type, indexed_candidates, scan) ==
    [results |-> Entries(TakeResults(SortByRank(scan.results))),
     path |-> IF indexed_candidates # <<>> THEN "indexed" ELSE "fallback",
     candidates |-> indexed_candidates,
     index_read |-> IF IndexFor(query_type).set THEN "set" ELSE "unset",
     decoded |-> scan.evaluated,
     evaluated |-> scan.evaluated]

\* search_dictionary past the blank test
SearchFrom(q, query_type, indexed_candidates) ==
    Answer(query_type, indexed_candidates, Scan(q, query_type, indexed_candidates))

\* search_dictionary: the returned entries and what the call did on the way
search_dictionary(q, order) ==
    IF IsBlank(q)
    THEN [results |-> <<>>, path |-> "empty", candidates |-> <<>>,
          index_read |-> "unread", decoded |-> 0, evaluated |-> 0]
    ELSE SearchFrom(q, detect_query_type(q),
                    find_indexed_entries(q, detect_query_type(q), order))

(***************************************************************************)
(* Words and queries the model draws from.  Each string is followed by its *)
(* text.                                                                   *)
(***************************************************************************)
S_dog == <<100, 111, 103>>                                   \* "dog"
S_Dog == <<68, 111, 103>>                                    \* "Dog"
S_dog_dot == <<100, 111, 103, 46>>                           \* "dog."
S_dog_tag == <<100, 111, 103, 32, 116, 97, 103>>             \* "dog tag"
S_hound == <<104, 111, 117, 110, 100>>                       \* "hound"
S_kennel == <<107, 101, 110, 110, 101, 108, 59, 32, 100, 111, 103, 32, 104, 117, 116>>  \* "kennel; dog hut"
S_zodiac == <<122, 111, 100, 105, 97, 99>>                   \* "zodiac"
S_edo == <<69, 100, 111, 59, 32, 111, 108, 100, 32, 84, 111, 107, 121, 111>>  \* "Edo; old Tokyo"
S_guard == <<103, 117, 97, 114, 100>>                        \* "guard"
S_noun == <<110>>                                            \* "n"
S_do_paren == <<40, 100, 111, 41>>                           \* "(do)"
KJ_inu == <<29356>>                                          \* U+72AC (dog)
KJ_koya == <<29356, 23567, 23627>>                           \* U+72AC U+5C0F U+5C4B (kennel)
KJ_koyaban == <<29356, 23567, 23627, 30058>>                 \* kennel + U+756A
KJ_koyabanken == <<29356, 23567, 23627, 30058, 29356>>       \* kennel + U+756A U+72AC
KJ_edo == <<27743, 25144>>                                   \* U+6C5F U+6238 (Edo)
KN_inu == <<12356, 12396>>                                   \* i-nu
KN_inugoya == <<12356, 12396, 12372, 12420>>                 \* i-nu-go-ya
KN_inugoyan == <<12356, 12396, 12372, 12420, 12435>>         \* i-nu-go-ya-n
KN_ban == <<12400, 12435>>                                   \* ba-n
KN_eto == <<12360, 12392>>                                   \* e-to
KN_edo == <<12360, 12393>>                                   \* e-do
KN_yaru == <<12420, 12427>>                                  \* ya-ru

W_inu == WordEntry(<<49>>, <<KJ_inu>>, <<KN_inu>>, <<S_dog>>, <<S_noun>>, TRUE)
W_tag == WordEntry(<<50>>, <<KJ_koyaban>>, <<KN_ban>>, <<S_dog_tag>>, <<S_noun>>, TRUE)
W_hound == WordEntry(<<51>>, <<KJ_koya>>, <<KN_inugoyan>>, <<S_hound, S_dog>>, <<S_noun>>, FALSE)
W_koya == WordEntry(<<52>>, <<KJ_koya, KJ_inu>>, <<KN_inugoya>>, <<S_kennel>>, <<S_noun>>, TRUE)
W_dup == WordEntry(<<53>>, <<KJ_inu, KJ_inu>>, <<KN_inu, KN_inu>>, <<S_dog_dot>>, <<S_noun>>, FALSE)
W_eto == WordEntry(<<54>>, <<>>, <<KN_eto>>, <<S_zodiac>>, <<S_noun>>, FALSE)
W_edo == WordEntry(<<55>>, <<KJ_edo>>, <<KN_edo>>, <<S_edo>>, <<S_noun>>, TRUE)
W_banken == WordEntry(<<56>>, <<KJ_koyabanken>>, <<KJ_koyaban>>, <<S_Dog>>, <<S_noun>>, FALSE)
W_ban == WordEntry(<<57>>, <<KJ_koyaban>>, <<KN_inugoyan>>, <<S_guard>>, <<S_noun>>, TRUE)
W_yaru == WordEntry(<<53, 56>>, <<>>, <<KN_yaru>>, <<S_do_paren>>, <<S_noun>>, TRUE)

WordPool == {W_inu, W_tag, W_hound, W_koya, W_dup, W_eto, W_edo, W_banken, W_ban}

\* longest dictionary the small specifications draw
MaxEntries == 2

\* further dictionaries: a kanji form held by a common word, by a rare word
\* and as the head of a longer form; a gloss word that only starts with
\* another gloss word once its punctuation is trimmed
Scenarios ==
    {<<W_koya, W_tag, W_hound>>, <<W_hound, W_tag, W_koya>>, <<W_inu, W_yaru>>}

\* the dictionaries of up to MaxEntries distinct words, in every storage
\* order, and the scenarios
Dictionaries ==
    UNION {{d \in [1..n -> WordPool] : \A i, j \in 1..n : d[i] = d[j] => i = j} :
               n \in 0..MaxEntries}
        \cup Scenarios

Q_empty == <<>>                                              \* ""
Q_blank == <<32, 12288>>                                     \* " " and U+3000
Q_dog == <<100, 111, 103>>                                   \* "dog"
Q_Dog == <<32, 68, 111, 103, 32>>                            \* " Dog "
Q_eto == <<101, 116, 111>>                                   \* "eto"
Q_do == <<100, 111>>                                         \* "do"

Queries == {Q_empty, Q_blank, Q_dog, Q_Dog, Q_eto, Q_do,
            KJ_inu, KJ_koya, KJ_koyaban, KN_eto, KN_edo}

(***************************************************************************)
(* build_search_indices and search_dictionary as steps                     *)
(***************************************************************************)
\* the caller holds no returned Vec
NoCall ==
    /\ query = <<>>
    /\ results = <<>>
    /\ path = "none"
    /\ candidates = <<>>
    /\ index_read = "unread"
    /\ decoded = 0
    /\ evaluated = 0

\* the store taken at the level of its decoded words: the arrays are not
\* looked into
Opaque == <<>>

\* no function is called directly
NoProbe == [fn |-> "none", input |-> <<>>, output |-> <<>>, done |-> FALSE]

\* the code generator is not looked at: the store is taken as given
NoJmdict == <<>>

\* no terminal front end runs
NoApp == <<>>

InitWith(dictionaries, strategies) ==
    /\ dict \in dictionaries
    /\ blob = Opaque
    /\ probe = NoProbe
    /\ jmdict = NoJmdict
    /\ app = NoApp
    /\ strategy \in strategies
    /\ bpc = "start"
    /\ english_handle = Unset
    /\ kanji_handle = Unset
    /\ kana_handle = Unset
    /\ ENGLISH_INDEX = Unset
    /\ KANJI_INDEX = Unset
    /\ KANA_INDEX = Unset
    /\ NoCall

\* wasm32: ENGLISH_INDEX.set(build_english_index()).unwrap()
SeqSetEnglish ==
    /\ strategy = "sequential"
    /\ bpc = "start"
    /\ ~ENGLISH_INDEX.set
    /\ ENGLISH_INDEX' = SetTo(build_english_index)
    /\ bpc' = "kanji"
    /\ UNCHANGED <<dict, blob, probe, jmdict, app, strategy, english_handle, kanji_handle, kana_handle,
                   KANJI_INDEX, KANA_INDEX, searchVars>>

\* wasm32: KANJI_INDEX.set(build_kanji_index()).unwrap()
SeqSetKanji ==
    /\ strategy = "sequential"
    /\ bpc = "kanji"
    /\ ~KANJI_INDEX.set
    /\ KANJI_INDEX' = SetTo(build_kanji_index)
    /\ bpc' = "kana"
    /\ UNCHANGED <<dict, blob, probe, jmdict, app, strategy, english_handle, kanji_handle, kana_handle,
                   ENGLISH_INDEX, KANA_INDEX, searchVars>>

\* wasm32: KANA_INDEX.set(build_kana_index()).unwrap()
SeqSetKana ==
    /\ strategy = "sequential"
    /\ bpc = "kana"
    /\ ~KANA_INDEX.set
    /\ KANA_INDEX' = SetTo(build_kana_index)
    /\ bpc' = "done"
    /\ UNCHANGED <<dict, blob, probe, jmdict, app, strategy, english_handle, kanji_handle, kana_handle,
                   ENGLISH_INDEX, KANJI_INDEX, searchVars>>

\* native: the three s.spawn(...) of the thread scope
Spawn ==
    /\ strategy = "parallel"
    /\ bpc = "start"
    /\ bpc' = "join_english"
    /\ UNCHANGED <<dict, blob, probe, jmdict, app, strategy, english_handle, kanji_handle, kana_handle,
                   ENGLISH_INDEX, KANJI_INDEX, KANA_INDEX, searchVars>>

\* native: the spawned thread running build_english_index to its end
EnglishThread ==
    /\ strategy = "parallel"
    /\ bpc # "start"
    /\ ~english_handle.set
    /\ english_handle' = SetTo(build_english_index)
    /\ UNCHANGED <<dict, blob, probe, jmdict, app, strategy, bpc, kanji_handle, kana_handle,
                   ENGLISH_INDEX, KANJI_INDEX, KANA_INDEX, searchVars>>

\* native: the spawned thread running build_kanji_index to its end
KanjiThread ==
    /\ strategy = "parallel"
    /\ bpc # "start"
    /\ ~kanji_handle.set
    /\ kanji_handle' = SetTo(build_kanji_index)
    /\ UNCHANGED <<dict, blob, probe, jmdict, app, strategy, bpc, english_handle, kana_handle,
                   ENGLISH_INDEX, KANJI_INDEX, KANA_INDEX, searchVars>>

\* native: the spawned thread running build_kana_index to its end
KanaThread ==
    /\ strategy = "parallel"
    /\ bpc # "start"
    /\ ~kana_handle.set
    /\ kana_handle' = SetTo(build_kana_index)
    /\ UNCHANGED <<dict, blob, probe, jmdict, app, strategy, bpc, english_handle, kanji_handle,
                   ENGLISH_INDEX, KANJI_INDEX, KANA_INDEX, searchVars>>

\* native: ENGLISH_INDEX.set(english_handle.join().unwrap()).unwrap()
JoinSetEnglish ==
    /\ bpc = "join_english"
    /\ english_handle.set
    /\ ~ENGLISH_INDEX.set
    /\ ENGLISH_INDEX' = SetTo(english_handle.value)
    /\ bpc' = "join_kanji"
    /\ UNCHANGED <<dict, blob, probe, jmdict, app, strategy, english_handle, kanji_handle, kana_handle,
                   KANJI_INDEX, KANA_INDEX, searchVars>>

\* native: KANJI_INDEX.set(kanji_handle.join().unwrap()).unwrap()
JoinSetKanji ==
    /\ bpc = "join_kanji"
    /\ kanji_handle.set
    /\ ~KANJI_INDEX.set
    /\ KANJI_INDEX' = SetTo(kanji_handle.value)
    /\ bpc' = "join_kana"
    /\ UNCHANGED <<dict, blob, probe, jmdict, app, strategy, english_handle, kanji_handle, kana_handle,
                   ENGLISH_INDEX, KANA_INDEX, searchVars>>

\* native: KANA_INDEX.set(kana_handle.join().unwrap()).unwrap()
JoinSetKana ==
    /\ bpc = "join_kana"
    /\ kana_handle.set
    /\ ~KANA_INDEX.set
    /\ KANA_INDEX' = SetTo(kana_handle.value)
    /\ bpc' = "done"
    /\ UNCHANGED <<dict, blob, probe, jmdict, app, strategy, english_handle, kanji_handle, kana_handle,
                   ENGLISH_INDEX, KANJI_INDEX, searchVars>>

\* build_search_indices is called once more after a call has returned; the
\* thread scope of the new call has handles of its own
CallAgain ==
    /\ bpc = "done"
    /\ bpc' = "start"
    /\ english_handle' = Unset
    /\ kanji_handle' = Unset
    /\ kana_handle' = Unset
    /\ UNCHANGED <<dict, blob, probe, jmdict, app, strategy,
                   ENGLISH_INDEX, KANJI_INDEX, KANA_INDEX, searchVars>>

\* variant: the set of a lock that is already set stores the new value and
\* the call goes on
SeqSetEnglishFails_replacing ==
    /\ strategy = "sequential"
    /\ bpc = "start"
    /\ ENGLISH_INDEX.set
    /\ ENGLISH_INDEX' = SetTo(build_english_index)
    /\ bpc' = "kanji"
    /\ UNCHANGED <<dict, blob, probe, jmdict, app, strategy, english_handle, kanji_handle, kana_handle,
                   KANJI_INDEX, KANA_INDEX, searchVars>>

\* wasm32: ENGLISH_INDEX.set(build_english_index()) on a lock that is set
\* returns Err with the index just built, and unwrap panics.  (The sets of
\* the two other locks cannot fail: a call that got past the first set found
\* all three locks unset.)
SeqSetEnglishFails ==
    /\ strategy = "sequential"
    /\ bpc = "start"
    /\ ENGLISH_INDEX.set
    /\ bpc' = "panicked"
    /\ UNCHANGED <<dict, blob, probe, jmdict, app, strategy, english_handle, kanji_handle, kana_handle,
                   ENGLISH_INDEX, KANJI_INDEX, KANA_INDEX, searchVars>>

\* native: ENGLISH_INDEX.set(english_handle.join().unwrap()) on a lock that
\* is set returns Err with the index the thread built, and unwrap panics;
\* the scope still lets the two other threads run to their end
JoinSetEnglishFails ==
    /\ bpc = "join_english"
    /\ english_handle.set
    /\ ENGLISH_INDEX.set
    /\ bpc' = "panicked"
    /\ UNCHANGED <<dict, blob, probe, jmdict, app, strategy, english_handle, kanji_handle, kana_handle,
                   ENGLISH_INDEX, KANJI_INDEX, KANA_INDEX, searchVars>>

\* the orders in which the HashMap scan of one call can meet the keys it uses
ScanOrders(q) ==
    IF IsBlank(q) THEN {<<>>}
    ELSE Orders(ScannedKeys(q, detect_query_type(q)))

\* variant: the call takes the kana index out of its lock (OnceLock::take)
Return_takingIndex(q, call) ==
    /\ query' = q
    /\ results' = call.results
    /\ path' = call.path
    /\ candidates' = call.candidates
    /\ index_read' = call.index_read
    /\ decoded' = call.decoded
    /\ evaluated' = call.evaluated
    /\ KANA_INDEX' = Unset
    /\ UNCHANGED <<dict, blob, probe, jmdict, app, strategy, bpc, english_handle, kanji_handle, kana_handle,
                   ENGLISH_INDEX, KANJI_INDEX>>

\* the return of a call: its outcome replaces that of the call before
Return(q, call) ==
    /\ query' = q
    /\ results' = call.results
    /\ path' = call.path
    /\ candidates' = call.candidates
    /\ index_read' = call.index_read
    /\ decoded' = call.decoded
    /\ evaluated' = call.evaluated
    /\ UNCHANGED <<dict, blob, probe, jmdict, app, buildVars>>

\* one call search_dictionary(q), from its entry to its return
Call(q) == \E order \in ScanOrders(q) : Return(q, search_dictionary(q, order))

\* a caller submits a query (japandict-tui App::search, japandict-web)
Search(queries) ==
    /\ path = "none"
    /\ \E q \in queries : Call(q)

\* the caller submits the query it holds the results of once more
Repeat ==
    /\ path # "none"
    /\ Call(query)

\* the caller drops the returned Vec
Drop ==
    /\ path # "none"
    /\ query' = <<>>
    /\ results' = <<>>
    /\ path' = "none"
    /\ candidates' = <<>>
    /\ index_read' = "unread"
    /\ decoded' = 0
    /\ evaluated' = 0
    /\ UNCHANGED <<dict, blob, probe, jmdict, app, buildVars>>

\* searches at every moment of a sequential build
Init == InitWith(Dictionaries, {"sequential"})

Next ==
    \/ SeqSetEnglish
    \/ SeqSetKanji
    \/ SeqSetKana
    \/ Search(Queries)
    \/ Repeat
    \/ Drop

Spec == Init /\ [][Next]_vars

\* build_search_indices alone, under both build configurations
InitBuild == InitWith(Dictionaries, {"parallel", "sequential"})

NextBuild ==
    \/ Spawn
    \/ EnglishThread
    \/ KanjiThread
    \/ KanaThread
    \/ JoinSetEnglish
    \/ JoinSetKanji
    \/ JoinSetKana
    \/ SeqSetEnglish
    \/ SeqSetKanji
    \/ SeqSetKana

SpecBuild == InitBuild /\ [][NextBuild]_vars

\* build_search_indices called a second time, under both configurations
InitRebuild == InitWith(Scenarios \cup {<<W_edo, W_dup, W_eto>>}, {"parallel", "sequential"})

NextRebuild ==
    \/ NextBuild
    \/ CallAgain
    \/ SeqSetEnglishFails
    \/ JoinSetEnglishFails

SpecRebuild == InitRebuild /\ [][NextRebuild]_vars

\* searches at every moment of a build of either configuration
DetQueries == {Q_dog, KJ_inu, KN_eto}

InitDet == InitWith(Dictionaries, {"parallel", "sequential"})

NextDet ==
    \/ NextBuild
    \/ Search(DetQueries)
    \/ Repeat
    \/ Drop

SpecDet == InitDet /\ [][NextDet]_vars

(***************************************************************************)
(* Dictionaries larger than the caps of the search: one word stored n      *)
(* times under n different ids                                             *)
(***************************************************************************)
\* decimal digits of a number, as an id string
RECURSIVE Digits(_)
Digits(n) == IF n < 10 THEN <<48 + n>> ELSE Append(Digits(n \div 10), 48 + (n % 10))

Bulk(w, n) == [i \in 1..n |-> [w EXCEPT !.id = Digits(i)]]

\* one dictionary past each cap of the search: more matches than are
\* returned, more fallback matches than are kept, more entries under one key
\* than are taken as candidates, more entries than the fallback scans
\* and, for comparison, a small dictionary of different words
CapDictionaries ==
    {Bulk(W_inu, RESULT_CAP + 1), Bulk(W_edo, FALLBACK_MATCH_CAP + 1),
     Bulk(W_inu, CANDIDATE_CAP + 1), Bulk(W_edo, FALLBACK_SCAN_CAP + 1),
     <<W_edo, W_dup, W_eto, W_tag, W_inu>>}

CapQueries == {Q_blank, Q_dog, Q_do, KJ_inu, KN_eto, KN_edo}

\* one search at any moment of a sequential build
InitCap == InitWith(CapDictionaries, {"sequential"})

NextCap ==
    \/ SeqSetEnglish
    \/ SeqSetKanji
    \/ SeqSetKana
    \/ Search(CapQueries)

SpecCap == InitCap /\ [][NextCap]_vars

(***************************************************************************)
(* detect_query_type called directly, on every string of up to MaxQueryLen *)
(* characters taken from the two sides of each bound of its range tests    *)
(***************************************************************************)
\* "a", " ", and U+303F U+3040 U+309F U+30A0 U+30FF U+3100 U+4DFF U+4E00
\* U+9FAF U+9FB0
ProbeChars ==
    {97, 32, 12351, 12352, 12447, 12448, 12543, 12544, 19967, 19968, 40879, 40880}

\* longest string given to detect_query_type
MaxQueryLen == 2

ProbeQueries == UNION {[1..n -> ProbeChars] : n \in 0..MaxQueryLen}

\* the call is entered with its argument
Entered(fn, input) ==
    [fn |-> fn, input |-> input, output |-> <<>>, done |-> FALSE]

InitClassify ==
    /\ dict = <<>>
    /\ strategy = "sequential"
    /\ bpc = "start"
    /\ english_handle = Unset
    /\ kanji_handle = Unset
    /\ kana_handle = Unset
    /\ ENGLISH_INDEX = Unset
    /\ KANJI_INDEX = Unset
    /\ KANA_INDEX = Unset
    /\ NoCall
    /\ blob = Opaque
    /\ probe \in {Entered("detect_query_type", q) : q \in ProbeQueries}
    /\ jmdict = NoJmdict
    /\ app = NoApp

\* detect_query_type(query) runs to its return
Classify ==
    /\ probe.fn = "detect_query_type"
    /\ ~probe.done
    /\ probe' = [probe EXCEPT !.output = detect_query_type(probe.input),
                              !.done = TRUE]
    /\ UNCHANGED <<dict, blob, jmdict, app, buildVars, searchVars>>

NextClassify == Classify

SpecClassify == InitClassify /\ [][NextClassify]_vars

(***************************************************************************)
(* get_word_entry called directly on arrays the code generator packed,     *)
(* and on damaged copies of them                                           *)
(***************************************************************************)
S_ger == <<103, 101, 114>>                                   \* "ger"
S_Hund == <<72, 117, 110, 100>>                              \* "Hund"
S_adj_i == <<97, 100, 106, 45, 105>>                         \* "adj-i"
KN_ma == <<12414>>                                           \* ma

J_inu == Word(<<49>>, <<Form(KJ_inu, TRUE)>>, <<Form(KN_inu, TRUE)>>,
              <<Sense(<<Gloss(ENG, S_dog), Gloss(S_ger, S_Hund)>>, <<S_noun>>)>>)
J_koya == Word(<<50>>, <<Form(KJ_koya, FALSE), Form(KJ_inu, FALSE)>>,
               <<Form(KN_inugoya, FALSE)>>,
               <<Sense(<<Gloss(ENG, S_kennel)>>, <<>>),
                 Sense(<<Gloss(ENG, S_dog)>>, <<S_noun, S_adj_i>>),
                 Sense(<<>>, <<S_adj_i>>)>>)
J_eto == Word(<<51>>, <<>>, <<Form(KN_eto, FALSE)>>,
              <<Sense(<<Gloss(ENG, S_zodiac)>>, <<S_noun>>)>>)
J_dup == Word(<<52>>, <<Form(KJ_inu, FALSE), Form(KJ_inu, FALSE)>>,
              <<Form(KN_inu, FALSE), Form(KN_eto, TRUE)>>,
              <<Sense(<<Gloss(ENG, S_dog_dot)>>, <<>>)>>)
J_ma == Word(<<53>>, <<>>, <<Form(KN_ma, FALSE)>>,
             <<Sense(<<Gloss(ENG, <<>>)>>, <<>>)>>)

JmdictWords == {J_inu, J_koya, J_eto, J_dup, J_ma}

\* longest word list given to the code generator
MaxWords == 2

WordLists ==
    UNION {{ws \in [1..n -> JmdictWords] : \A i, j \in 1..n : ws[i] = ws[j] => i = j} :
               n \in 0..MaxWords}

\* --limit
Limits == {0, 1}

PackedBlobs == {pack(ws, limit) : ws \in WordLists, limit \in Limits}

\* copies cut short: the last byte of the entry records missing, the last
\* slot of the string offset table missing
Damaged(b) ==
    {[b EXCEPT !.JMDICT_ENTRIES = SubSeq(@, 1, Len(@) - 1)],
     [b EXCEPT !.JMDICT_STRING_OFFSETS = SubSeq(@, 1, Len(@) - 1)]}

StoreBlobs == PackedBlobs \cup UNION {Damaged(b) : b \in PackedBlobs}

\* no search runs here: the decoded view is left empty and the arrays are
\* looked into directly
InitStore ==
    /\ dict = <<>>
    /\ strategy = "sequential"
    /\ bpc = "start"
    /\ english_handle = Unset
    /\ kanji_handle = Unset
    /\ kana_handle = Unset
    /\ ENGLISH_INDEX = Unset
    /\ KANJI_INDEX = Unset
    /\ KANA_INDEX = Unset
    /\ NoCall
    /\ blob \in StoreBlobs
    /\ probe = NoProbe
    /\ jmdict = NoJmdict
    /\ app = NoApp

\* get_word_entry(index) runs to its return or to its panic, for an index up
\* to WORD_COUNT itself
Fetch ==
    /\ blob # Opaque
    /\ probe.fn = "none"
    /\ \E index \in 0..blob.WORD_COUNT :
          probe' = [fn |-> "get_word_entry", input |-> index,
                    output |-> get_word_entry_in(blob, index), done |-> TRUE]
    /\ UNCHANGED <<dict, blob, jmdict, app, buildVars, searchVars>>

\* the caller drops the entry
Release ==
    /\ probe.fn = "get_word_entry"
    /\ probe' = NoProbe
    /\ UNCHANGED <<dict, blob, jmdict, app, buildVars, searchVars>>

NextStore ==
    \/ Fetch
    \/ Release

SpecStore == InitStore /\ [][NextStore]_vars

(***************************************************************************)
(* The code generator run on a word list, and get_word_entry called on the *)
(* arrays it generated                                                     *)
(***************************************************************************)
\* a word with one gloss more than a u8 count can hold
J_many == Word(<<54>>, <<Form(KJ_inu, TRUE)>>, <<Form(KN_inu, TRUE)>>,
               <<Sense([k \in 1..256 |-> Gloss(ENG, S_dog)], <<S_noun>>)>>)

\* what the generator is run on: the parsed words and --limit
PackInputs ==
    {[words |-> ws, limit |-> limit] :
         ws \in WordLists \cup {<<J_many>>, <<J_inu, J_many>>}, limit \in Limits}

InitPack ==
    /\ dict = <<>>
    /\ strategy = "sequential"
    /\ bpc = "start"
    /\ english_handle = Unset
    /\ kanji_handle = Unset
    /\ kana_handle = Unset
    /\ ENGLISH_INDEX = Unset
    /\ KANJI_INDEX = Unset
    /\ KANA_INDEX = Unset
    /\ NoCall
    /\ blob = Opaque
    /\ probe = NoProbe
    /\ jmdict \in PackInputs
    /\ app = NoApp

\* main of jmdict-codegen runs to its end: dictionary_data is generated
Generate ==
    /\ jmdict # NoJmdict
    /\ blob = Opaque
    /\ blob' = pack(jmdict.words, jmdict.limit)
    /\ UNCHANGED <<dict, probe, jmdict, app, buildVars, searchVars>>

NextPack ==
    \/ Generate
    \/ Fetch
    \/ Release

SpecPack == InitPack /\ [][NextPack]_vars

(***************************************************************************)
(* score_features, simple_edit_distance and evaluate_entry called          *)
(* directly                                                                *)
(***************************************************************************)
\* every Features value with a distance a u8 can hold at either end of its
\* range
FeatureVectors ==
    [exact_form : BOOLEAN, exact_reading : BOOLEAN, prefix : BOOLEAN,
     edit_distance : {0, 1, 2, 3, 255}, has_common : BOOLEAN,
     shorter_lemma : BOOLEAN, gloss_hit : BOOLEAN, first_gloss : BOOLEAN,
     exact_english : BOOLEAN, learner_friendly : BOOLEAN, simple_form : BOOLEAN]

\* "a", U+3048 (e), U+3068 (to): one byte and three bytes each
DistanceChars == {97, 12360, 12392}

\* longest string given to simple_edit_distance
MaxFormLen == 3

DistanceStrings == UNION {[1..n -> DistanceChars] : n \in 0..MaxFormLen}

S_tags == <<100, 111, 103, 32, 116, 97, 103, 59, 32, 100, 111, 103>>  \* "dog tag; dog"
S_pretty == <<112, 114, 101, 116, 116, 121>>                 \* "pretty"
KN_ado == <<12354, 12393>>                                   \* a-do
KN_etou == <<12360, 12392, 12358>>                           \* e-to-u
KN_pretty == <<12358, 12388, 12367, 12375, 12356>>           \* u-tsu-ku-shi-i
KJ_pretty == <<32654, 12375, 12356>>                         \* U+7F8E shi i
KJ_pretty_mangled == <<32654, 12375, 8222, 197, 209>>        \* U+7F8E shi U+201E U+00C5 U+00D1

\* most forms or glosses of an entry given to evaluate_entry
MaxForms == 2

KanaLists == UNION {[1..n -> {KN_eto, KN_edo, KN_ado, KN_etou}] : n \in 0..MaxForms}

GlossLists == UNION {[1..n -> {S_dog, S_hound, S_dog_tag, S_tags}] : n \in 0..MaxForms}

\* entries that differ in their readings, entries that differ in their
\* glosses, and long adjectives and nouns
FeatureEntries ==
    {WordEntry(<<49>>, <<>>, kana, <<S_hound>>, <<S_noun>>, FALSE) : kana \in KanaLists}
        \cup {WordEntry(<<50>>, <<KJ_inu>>, <<KN_inu>>, english, <<S_noun>>, TRUE) :
                  english \in GlossLists}
        \cup {WordEntry(<<51>>, <<kanji>>, <<KN_pretty>>, <<S_pretty>>, <<pos>>, TRUE) :
                  kanji \in {KJ_pretty, KJ_pretty_mangled, KJ_koya},
                  pos \in {S_adj_i, S_noun}}

FeatureQueries == {Q_dog, Q_Dog, KN_eto, KN_pretty}

InitFeatures ==
    /\ dict = <<>>
    /\ strategy = "sequential"
    /\ bpc = "start"
    /\ english_handle = Unset
    /\ kanji_handle = Unset
    /\ kana_handle = Unset
    /\ ENGLISH_INDEX = Unset
    /\ KANJI_INDEX = Unset
    /\ KANA_INDEX = Unset
    /\ NoCall
    /\ jmdict = NoJmdict
    /\ app = NoApp
    /\ blob = Opaque
    /\ probe \in {Entered("score_features", f) : f \in FeatureVectors}
           \cup {Entered("simple_edit_distance", [a |-> a, b |-> b]) :
                     a \in DistanceStrings, b \in DistanceStrings}
           \cup {Entered("evaluate_entry", [entry |-> e, query |-> q]) :
                     e \in FeatureEntries, q \in FeatureQueries}

\* score_features(&features) runs to its return
Score ==
    /\ probe.fn = "score_features"
    /\ ~probe.done
    /\ probe' = [probe EXCEPT !.output = score_features(probe.input),
                              !.done = TRUE]
    /\ UNCHANGED <<dict, blob, jmdict, app, buildVars, searchVars>>

\* simple_edit_distance(a, b) runs to its return
Distance ==
    /\ probe.fn = "simple_edit_distance"
    /\ ~probe.done
    /\ probe' = [probe EXCEPT
                    !.output = simple_edit_distance(probe.input.a, probe.input.b),
                    !.done = TRUE]
    /\ UNCHANGED <<dict, blob, jmdict, app, buildVars, searchVars>>

\* evaluate_entry(&entry, query, &query_type) runs to its return, with the
\* query_type search_dictionary passes
Evaluate ==
    /\ probe.fn = "evaluate_entry"
    /\ ~probe.done
    /\ probe' = [probe EXCEPT
                    !.output = evaluate_entry(probe.input.entry, probe.input.query,
                                              detect_query_type(probe.input.query)),
                    !.done = TRUE]
    /\ UNCHANGED <<dict, blob, jmdict, app, buildVars, searchVars>>

NextFeatures ==
    \/ Score
    \/ Distance
    \/ Evaluate

SpecFeatures == InitFeatures /\ [][NextFeatures]_vars

(***************************************************************************)
(* The terminal front end (japandict-tui/src/main.rs): main builds the     *)
(* indices, run_tui makes the App and then, in turn, draws it and handles  *)
(* one key.  query is a String: cursor_pos and the arguments of insert,    *)
(* remove, truncate, drain and split_at are byte offsets, and each of      *)
(* these panics on an offset that is not a character boundary.             *)
(***************************************************************************)
\* App::new(); search_time is a measured duration and is left out.
\* panicked: the thread has panicked, in handle_input or in ui
App_new ==
    [query |-> <<>>, cursor_pos |-> 0, results |-> <<>>, scroll |-> 0,
     should_quit |-> FALSE, panicked |-> FALSE]

\* str::is_char_boundary
is_char_boundary(s, idx) == \E k \in 0..Len(s) : ByteLen(SubSeq(s, 1, k)) = idx

\* the number of characters that end at or before byte offset idx
CharsBefore(s, idx) == SetMax({k \in 0..Len(s) : ByteLen(SubSeq(s, 1, k)) <= idx})

\* String::insert(idx, ch)
String_insert(s, idx, ch) ==
    IF ~is_char_boundary(s, idx) THEN Fault
    ELSE Ok(SubSeq(s, 1, CharsBefore(s, idx)) \o <<ch>>
                \o SubSeq(s, CharsBefore(s, idx) + 1, Len(s)))

\* String::remove(idx)
String_remove(s, idx) ==
    IF idx >= ByteLen(s) \/ ~is_char_boundary(s, idx) THEN Fault
    ELSE Ok(SubSeq(s, 1, CharsBefore(s, idx))
                \o SubSeq(s, CharsBefore(s, idx) + 2, Len(s)))

\* String::truncate(new_len)
String_truncate(s, new_len) ==
    IF new_len > ByteLen(s) THEN Ok(s)
    ELSE IF ~is_char_boundary(s, new_len) THEN Fault
    ELSE Ok(SubSeq(s, 1, CharsBefore(s, new_len)))

\* String::drain(0..end), the drained characters dropped
String_drain(s, end) ==
    IF end > ByteLen(s) \/ ~is_char_boundary(s, end) THEN Fault
    ELSE Ok(SubSeq(s, CharsBefore(s, end) + 1, Len(s)))

\* a panic unwinds out of run_tui
Panic(a) == [a EXCEPT !.panicked = TRUE]

\* App::search, order the order of the HashMap scan of its search_dictionary
App_search(a, order) ==
    IF IsBlank(a.query) THEN [a EXCEPT !.results = <<>>]
    ELSE [a EXCEPT !.results = search_dictionary(a.query, order).results,
                   !.scroll = 0]

\* the edit of an arm of handle_input on the outcome edited of a String
\* method, followed by self.search()
Edited(a, edited, cursor_pos, order) ==
    IF edited.fault THEN Panic([a EXCEPT !.cursor_pos = cursor_pos])
    ELSE App_search([a EXCEPT !.query = edited.value, !.cursor_pos = cursor_pos],
                    order)

\* ui: the draw of the next turn of the loop of run_tui, which is not
\* reached after a quit key or a panic; split_at(cursor_pos) of a query that
\* is not empty
ui(a) ==
    IF a.should_quit \/ a.panicked THEN a
    ELSE IF a.query # <<>> /\ ~is_char_boundary(a.query, a.cursor_pos) THEN Panic(a)
    ELSE a

\* the loop of run_tui is waiting for a key
Running == app # NoApp /\ ~app.should_quit /\ ~app.panicked

\* handle_input has brought the App to a: the loop goes on to the next draw
Handled(a) ==
    /\ app' = ui(a)
    /\ UNCHANGED <<dict, blob, probe, jmdict, buildVars, searchVars>>

\* "d", "o", "g", " ", U+3048 (e)
TypedChars == {100, 111, 103, 32, 12360}

\* the query is typed up to this many characters
MaxTyped == 3

\* the stored words of the front end
TuiDictionary == <<W_inu, W_tag, W_hound, W_eto>>

\* run_tui: App::new() and the first draw, once main has built the indices
RunTui ==
    /\ bpc = "done"
    /\ app = NoApp
    /\ Handled(App_new)

\* 'q', Esc, Ctrl-c
Quit ==
    /\ Running
    /\ Handled([app EXCEPT !.should_quit = TRUE])

\* Ctrl-a
CursorStart ==
    /\ Running
    /\ Handled([app EXCEPT !.cursor_pos = 0])

\* Ctrl-e
CursorEnd ==
    /\ Running
    /\ Handled([app EXCEPT !.cursor_pos = ByteLen(app.query)])

\* Ctrl-f, Right
CursorRight ==
    /\ Running
    /\ Handled(IF app.cursor_pos < ByteLen(app.query)
               THEN [app EXCEPT !.cursor_pos = @ + 1] ELSE app)

\* Ctrl-b, Left
CursorLeft ==
    /\ Running
    /\ Handled(IF app.cursor_pos > 0
               THEN [app EXCEPT !.cursor_pos = @ - 1] ELSE app)

\* Ctrl-n, Down; saturating_sub(1) of an empty results is 0
SelectNext ==
    /\ Running
    /\ Handled(IF app.scroll < SetMax({Len(app.results) - 1, 0})
               THEN [app EXCEPT !.scroll = @ + 1] ELSE app)

\* Ctrl-p, Up
SelectPrevious ==
    /\ Running
    /\ Handled(IF app.scroll > 0 THEN [app EXCEPT !.scroll = @ - 1] ELSE app)

\* Ctrl-k
KillToEnd ==
    /\ Running
    /\ LET edited == String_truncate(app.query, app.cursor_pos)
       IN  \E order \in ScanOrders(IF edited.fault THEN <<>> ELSE edited.value) :
               Handled(Edited(app, edited, app.cursor_pos, order))

\* Ctrl-u
KillToStart ==
    /\ Running
    /\ LET edited == String_drain(app.query, app.cursor_pos)
       IN  \E order \in ScanOrders(IF edited.fault THEN <<>> ELSE edited.value) :
               Handled(Edited(app, edited, IF edited.fault THEN app.cursor_pos ELSE 0,
                              order))

\* Ctrl-d
DeleteAt ==
    /\ Running
    /\ app.cursor_pos < ByteLen(app.query)
    /\ LET edited == String_remove(app.query, app.cursor_pos)
       IN  \E order \in ScanOrders(IF edited.fault THEN <<>> ELSE edited.value) :
               Handled(Edited(app, edited, app.cursor_pos, order))

\* Backspace, Ctrl-h
Backspace ==
    /\ Running
    /\ app.cursor_pos > 0
    /\ LET edited == String_remove(app.query, app.cursor_pos - 1)
       IN  \E order \in ScanOrders(IF edited.fault THEN <<>> ELSE edited.value) :
               Handled(Edited(app, edited, app.cursor_pos - 1, order))

\* a character typed with no modifier or with Shift
TypeChar ==
    /\ Running
    /\ Len(app.query) < MaxTyped
    /\ \E c \in TypedChars :
           LET edited == String_insert(app.query, app.cursor_pos, c)
           IN  \E order \in ScanOrders(IF edited.fault THEN <<>> ELSE edited.value) :
                   Handled(Edited(app, edited,
                                  IF edited.fault THEN app.cursor_pos
                                  ELSE app.cursor_pos + 1, order))

\* PageDown
PageDown ==
    /\ Running
    /\ Handled([app EXCEPT
                   !.scroll = MinOf(@ + 10, SetMax({Len(app.results) - 1, 0}))])

\* PageUp
PageUp ==
    /\ Running
    /\ Handled([app EXCEPT !.scroll = SetMax({@ - 10, 0})])

\* japandict --tui on a native build
InitTui == InitWith({TuiDictionary}, {"parallel"})

NextTui ==
    \/ Spawn
    \/ EnglishThread
    \/ KanjiThread
    \/ KanaThread
    \/ JoinSetEnglish
    \/ JoinSetKanji
    \/ JoinSetKana
    \/ RunTui
    \/ Quit
    \/ CursorStart
    \/ CursorEnd
    \/ CursorRight
    \/ CursorLeft
    \/ SelectNext
    \/ SelectPrevious
    \/ KillToEnd
    \/ KillToStart
    \/ DeleteAt
    \/ Backspace
    \/ TypeChar
    \/ PageDown
    \/ PageUp

SpecTui == InitTui /\ [][NextTui]_vars

(***************************************************************************)
(* Properties of search_dictionary and build_search_indices                *)
(***************************************************************************)
\* a call has returned and its outcome is in the call variables
Returned == path # "none"

\* the class, the normalized form and the scoring of the query of the call
QueryType == detect_query_type(query)

NQ == normalize_query(query)

Scored(entry) == evaluate_entry(entry, query, QueryType)

ScoreOf(entry) == Scored(entry)[1].score

FeaturesOf(entry) == Scored(entry)[1].features

\* positions of the returned sequence
Pos == 1..Len(results)

\* C1: a call with an empty or whitespace-only query returns the empty
\* sequence, reads none of the three indices and decodes no entry.
C1_BlankQueryTouchesNothing ==
    (Returned /\ \A i \in 1..Len(query) : IsWhitespace(query[i]))
        => /\ results = <<>>
           /\ index_read = "unread"
           /\ decoded = 0

\* a whitespace-only query has been answered over a non-empty dictionary
\* whose indices are all published
C1_Witness ==
    /\ Returned
    /\ query = Q_blank
    /\ dict # <<>>
    /\ ENGLISH_INDEX.set /\ KANJI_INDEX.set /\ KANA_INDEX.set
    /\ results = <<>>

\* C2: whatever the query, the dictionary and the state of the indices, the
\* returned sequence has at most 50 entries.
C2_AtMostFifty == Len(results) <= 50

\* a call that scored more than 50 matching entries returned exactly 50
C2_Witness ==
    /\ Returned
    /\ evaluated > 50
    /\ Len(results) = 50

\* C3 as stated: on either path at most 1000 entries are handed to
\* evaluate_entry in one call.
C3_AtMostThousandScored == evaluated <= 1000

\* C3 amended: on the indexed path at most 1000 entries are handed to
\* evaluate_entry; on the fallback path at most min(WORD_COUNT, 5000) are.
C3_ScoredWithinPathCap ==
    /\ path = "indexed" => Len(candidates) <= 1000 /\ evaluated <= 1000
    /\ path = "fallback" => evaluated <= MinOf(Len(dict), 5000)

\* an indexed call over a dictionary where more than 1000 entries carry the
\* key scored exactly 1000
C3_Witness ==
    /\ path = "indexed"
    /\ Len(dict) > 1000
    /\ evaluated = 1000

\* C4: the returned sequence is in descending score; at equal score a common
\* entry comes before a non-common one wherever the two are stored; at equal
\* score and commonness the smaller minimum byte length of the kanji and kana
\* forms comes first; and then the lexicographic order of the first kanji
\* form (else first kana form, else "") decides.
C4_FormLengths(e) == {ByteLen(f) : f \in Range(e.kanji) \cup Range(e.kana)}

C4_Length(e) ==
    IF C4_FormLengths(e) = {} THEN 100
    ELSE CHOOSE n \in C4_FormLengths(e) : \A m \in C4_FormLengths(e) : n <= m

C4_Key(e) ==
    IF Len(e.kanji) > 0 THEN e.kanji[1]
    ELSE IF Len(e.kana) > 0 THEN e.kana[1]
    ELSE <<>>

C4_InOrder(a, b) ==
    \/ ScoreOf(a) > ScoreOf(b)
    \/ /\ ScoreOf(a) = ScoreOf(b)
       /\ \/ a.is_common /\ ~b.is_common
          \/ /\ a.is_common = b.is_common
             /\ \/ C4_Length(a) < C4_Length(b)
                \/ /\ C4_Length(a) = C4_Length(b)
                   /\ StrCmp(C4_Key(a), C4_Key(b)) <= 0

StoredAt(e) == CHOOSE k \in 1..Len(dict) : dict[k] = e

C5_SameQuerySameResults ==
    [][(Returned /\ path' # "none" /\ query' = query) => results' = results]_vars

\* C5 amended: any two calls with the same query over the same dictionary
\* that find the index of the query's class in the same state (both before it
\* is published, or both after) return the same sequence, whatever the scan
\* order of the hash map and the build configuration.
C5_SameIndexStateSameResults ==
    [][(Returned /\ path' # "none" /\ query' = query /\ index_read' = index_read)
          => results' = results]_vars

\* a call under a parallel build took candidates from several keys of the
\* published index, met in one of several orders, and returned several
\* entries
C5_Witness ==
    /\ Returned
    /\ strategy = "parallel"
    /\ path = "indexed"
    /\ Cardinality(ScannedKeys(query, QueryType)) >= 2
    /\ Len(results) >= 2

\* the entry has a gloss equal to the query
C6_HasExactGloss(e) ==
    \E k \in 1..Len(e.english) : to_lowercase(e.english[k]) = NQ

\* the first gloss of the entry is equal to the query
C6_FirstGlossExact(e) ==
    /\ Len(e.english) > 0
    /\ to_lowercase(e.english[1]) = NQ

\* the entry matched the query only inside a longer gloss
C6_CompoundOnly(e) ==
    /\ FeaturesOf(e).gloss_hit
    /\ ~FeaturesOf(e).exact_english

\* C6 as stated: for an English query, a result with a gloss equal to the
\* query comes before every result that matched only inside a compound, and
\* the first result then has exact_english.
C6_ExactGlossFirst ==
    (Returned /\ QueryType = "English") =>
        /\ \A i, j \in Pos :
              (C6_HasExactGloss(results[i]) /\ C6_CompoundOnly(results[j])) => i < j
        /\ (\E i \in Pos : C6_HasExactGloss(results[i]))
              => FeaturesOf(results[1]).exact_english

\* C6 amended: for an English query, a result whose first gloss is equal to
\* the query comes before every result that matched only inside a compound,
\* and the first result then has exact_english.
C6_ExactFirstGlossFirst ==
    (Returned /\ QueryType = "English") =>
        /\ \A i, j \in Pos :
              (C6_FirstGlossExact(results[i]) /\ C6_CompoundOnly(results[j])) => i < j
        /\ (\E i \in Pos : C6_FirstGlossExact(results[i]))
              => FeaturesOf(results[1]).exact_english

\* an entry whose first gloss is the query was returned before a common
\* entry stored ahead of it that matched inside a compound
C6_Witness ==
    /\ Returned
    /\ QueryType = "English"
    /\ \E i, j \in Pos :
          /\ i < j
          /\ C6_FirstGlossExact(results[i])
          /\ C6_CompoundOnly(results[j])
          /\ results[j].is_common
          /\ StoredAt(results[j]) < StoredAt(results[i])

\* the kanji forms of the entry include the query
C7_ExactKanji(e) == \E k \in 1..Len(e.kanji) : e.kanji[k] = query

\* the query is of the Kanji class and a common entry of the dictionary has
\* it among its kanji forms
C7_CommonExactStored ==
    /\ Returned
    /\ QueryType = "Kanji"
    /\ \E k \in 1..Len(dict) : dict[k].is_common /\ C7_ExactKanji(dict[k])

\* no cap of the search cuts a match off: at most 50 entries match the
\* query, and the kanji index is published or the fallback scan reaches
\* every entry
C7_WithinReach ==
    /\ Cardinality({k \in 1..Len(dict) : Scored(dict[k]) # None}) <= 50
    /\ KANJI_INDEX.set \/ Len(dict) <= 5000

Romaji(c) ==
    CASE c = 12356 -> <<105>>              \* i
      [] c = 12360 -> <<101>>              \* e
      [] c = 12372 -> <<103, 111>>         \* go
      [] c = 12392 -> <<116, 111>>         \* to
      [] c = 12393 -> <<100, 111>>         \* do
      [] c = 12396 -> <<110, 117>>         \* nu
      [] c = 12400 -> <<98, 97>>           \* ba
      [] c = 12420 -> <<121, 97>>          \* ya
      [] c = 12435 -> <<110>>              \* n
      [] OTHER -> <<c>>

RECURSIVE Romanize(_)
Romanize(s) == IF s = <<>> THEN <<>> ELSE Romaji(Head(s)) \o Romanize(Tail(s))

\* a kana form of the entry, transliterated, is within two edits of the query
C8_NearMiss(e) ==
    \E k \in 1..Len(e.kana) : simple_edit_distance(Romanize(e.kana[k]), NQ) <= 2

\* C8: a Latin-script query without an indexed match, answered by the
\* fallback scan over entries one of which has a kana form that is a near
\* miss of the query, returns such an entry, with an edit_distance of at
\* most 2.
C8_LatinNearMissSurfaces ==
    (/\ Returned
     /\ QueryType = "English"
     /\ path = "fallback"
     /\ \E k \in 1..MinOf(Len(dict), 5000) : C8_NearMiss(dict[k]))
        => \E i \in Pos :
              /\ C8_NearMiss(results[i])
              /\ FeaturesOf(results[i]).edit_distance <= 2

\* what a key holds when every push of the builder is kept: each id as many
\* times as the entry lists the key, the ids ascending
C9_Forms(e, script) == IF script = "kanji" THEN e.kanji ELSE e.kana

RECURSIVE C9_Pushed(_, _, _, _)
C9_Pushed(d, script, key, n) ==
    IF n = 0 THEN <<>>
    ELSE C9_Pushed(d, script, key, n - 1) \o
         [j \in 1..Cardinality({k \in 1..Len(C9_Forms(d[n], script)) :
                                  C9_Forms(d[n], script)[k] = key})
             |-> n - 1]

C9_FormIndex(d, script) ==
    [key \in UNION {Range(C9_Forms(d[n], script)) : n \in 1..Len(d)}
        |-> C9_Pushed(d, script, key, Len(d))]

\* the keys an entry is filed under in the gloss index: each normalized
\* gloss, its words longer than one byte, its non-empty clauses and the
\* first word of each clause when longer than one byte
C9_ClauseKeys(clause) ==
    IF clause = <<>> THEN {}
    ELSE {clause} \cup {w \in {Head(split_whitespace(clause))} : ByteLen(w) > 1}

C9_GlossKeysOf(e) ==
    UNION {LET gloss == to_lowercase(Trim(e.english[k]))
           IN  {gloss}
                 \cup {w \in Range(split_whitespace(gloss)) : ByteLen(w) > 1}
                 \cup UNION {C9_ClauseKeys(Trim(m)) : m \in Range(split(gloss, 59))}
           : k \in 1..Len(e.english)}

RECURSIVE C9_Ascending(_)
C9_Ascending(S) ==
    IF S = {} THEN <<>>
    ELSE LET top == CHOOSE x \in S : \A y \in S : y <= x
         IN  Append(C9_Ascending(S \ {top}), top)

C9_GlossIndex(d) ==
    [key \in UNION {C9_GlossKeysOf(d[n]) : n \in 1..Len(d)}
        |-> C9_Ascending({n - 1 : n \in {m \in 1..Len(d) : key \in C9_GlossKeysOf(d[m])}})]

\* C9: each published index is one fixed function of the stored entries,
\* the same under the parallel and the sequential build and in every run.
C9_IndicesFunctionOfBlob ==
    /\ ENGLISH_INDEX.set => ENGLISH_INDEX.value = C9_GlossIndex(dict)
    /\ KANJI_INDEX.set => KANJI_INDEX.value = C9_FormIndex(dict, "kanji")
    /\ KANA_INDEX.set => KANA_INDEX.value = C9_FormIndex(dict, "kana")

\* a parallel build has published all three indices of a dictionary in
\* which two entries share a key
C9_Witness ==
    /\ strategy = "parallel"
    /\ bpc = "done"
    /\ ENGLISH_INDEX.set /\ KANJI_INDEX.set /\ KANA_INDEX.set
    /\ \E key \in DOMAIN KANJI_INDEX.value : Len(KANJI_INDEX.value[key]) >= 2
    /\ \E key \in DOMAIN ENGLISH_INDEX.value : Len(ENGLISH_INDEX.value[key]) >= 2

\* the id sequence is ascending and free of duplicates
C10_StrictlyAscending(ids) == \A i, j \in 1..Len(ids) : i < j => ids[i] < ids[j]

C10_AllStrictlyAscending(index) ==
    index.set => \A key \in DOMAIN index.value : C10_StrictlyAscending(index.value[key])

\* C10: in each published index the id sequence under every key is sorted
\* ascending and holds no id twice.
C10_IndicesSortedDeduplicated ==
    /\ C10_AllStrictlyAscending(ENGLISH_INDEX)
    /\ C10_AllStrictlyAscending(KANJI_INDEX)
    /\ C10_AllStrictlyAscending(KANA_INDEX)

\* how many of the three OnceLocks hold an index
C11_Published ==
    Cardinality({lock \in {"english", "kanji", "kana"} :
                    CASE lock = "english" -> ENGLISH_INDEX.set
                      [] lock = "kanji" -> KANJI_INDEX.set
                      [] lock = "kana" -> KANA_INDEX.set})

\* C11: at every moment of build_search_indices running alongside searches
\* either all three indices are published or none is.
C11_PublishedTogether == C11_Published \in {0, 3}

\* the complete index of the stored entries for the class of the query, the
\* keys of it the query takes ids from, and the candidates they give
C12_CompleteIndex ==
    IF QueryType = "English" THEN C9_GlossIndex(dict)
    ELSE IF QueryType = "Kanji" THEN C9_FormIndex(dict, "kanji")
    ELSE C9_FormIndex(dict, "kana")

C12_CompleteKeys ==
    IF QueryType = "English" /\ NQ \in DOMAIN C12_CompleteIndex THEN {NQ}
    ELSE {key \in DOMAIN C12_CompleteIndex : starts_with(key, NQ)}

C12_CompleteCandidates ==
    Truncate(C9_Ascending(UNION {Range(C12_CompleteIndex[key]) : key \in C12_CompleteKeys}),
             1000)

\* C12: a call made at any moment of the build reads the index of its query
\* class either as not yet published, and then has no indexed candidates and
\* answers from the fallback scan, or as the complete index of the stored
\* entries, and then has the candidates that the complete index gives.
C12_ReadsUnbuiltOrComplete ==
    (Returned /\ path # "empty") =>
        \/ /\ index_read = "unset"
           /\ candidates = <<>>
           /\ path = "fallback"
        \/ /\ index_read = "set"
           /\ candidates = C12_CompleteCandidates

\* a Kanji query was answered from the fallback scan while a parallel build
\* had published the gloss index and not yet the kanji index
C12_Witness ==
    /\ Returned
    /\ strategy = "parallel"
    /\ ENGLISH_INDEX.set /\ ~KANJI_INDEX.set
    /\ QueryType = "Kanji"
    /\ index_read = "unset"
    /\ path = "fallback"
    /\ results # <<>>

\* the lock, once it holds an index, holds the same index after the step
C13_Kept(lock, lock_after) == lock.set => lock_after = lock

\* C13: no step of a search or of the build changes the stored entries or an
\* index that is already published: its keys and id sequences stay as
\* published.
C13_PublishedNeverModified ==
    [][/\ dict' = dict
       /\ C13_Kept(ENGLISH_INDEX, ENGLISH_INDEX')
       /\ C13_Kept(KANJI_INDEX, KANJI_INDEX')
       /\ C13_Kept(KANA_INDEX, KANA_INDEX')]_vars

\* a call answered from a published index returned entries, all three
\* indices being published
C13_Witness ==
    /\ Returned
    /\ bpc = "done"
    /\ ENGLISH_INDEX.set /\ KANJI_INDEX.set /\ KANA_INDEX.set
    /\ path = "indexed"
    /\ results # <<>>

\* the forms the index of the query's class is keyed by
C14_Forms(e) == IF QueryType = "Kanji" THEN e.kanji ELSE e.kana

\* the ordinals of the stored entries with a form equal to, or starting
\* with, the normalized query
C14_Matching ==
    {k - 1 : k \in {n \in 1..Len(dict) :
                      \E i \in 1..Len(C14_Forms(dict[n])) :
                          starts_with(C14_Forms(dict[n])[i], NQ)}}

\* a Kanji or Kana query was answered with its index published
C14_Case ==
    /\ Returned
    /\ QueryType \in {"Kanji", "Kana"}
    /\ index_read = "set"

\* C14 as stated: for a Kanji or Kana query with the index built, every
\* stored entry with a form equal to, or starting with, the normalized query
\* is among the candidates, and every candidate is scored.
C14_HitsComplete ==
    C14_Case =>
        /\ C14_Matching \subseteq Range(candidates)
        /\ candidates # <<>> => evaluated = Len(candidates)

\* C14 amended: for a Kanji or Kana query with the index built, the scored
\* candidates are the entries with a form of the query's class equal to, or
\* starting with, the normalized query, cut to the 1000 of lowest ordinal;
\* none is lost when at most 1000 entries match.
C14_HitsCompleteUpToCap ==
    C14_Case =>
        /\ Range(candidates) \subseteq C14_Matching
        /\ Len(candidates) = MinOf(Cardinality(C14_Matching), 1000)
        /\ Cardinality(Range(candidates)) = Len(candidates)
        /\ \A m \in C14_Matching \ Range(candidates) :
              \A i \in 1..Len(candidates) : candidates[i] < m
        /\ candidates # <<>> => evaluated = Len(candidates)

\* a query matched some of the stored entries and not others, one of them by
\* a longer form only, and all the matching ones were scored
C14_Witness ==
    /\ C14_Case
    /\ Cardinality(C14_Matching) \in 2..(Len(dict) - 1)
    /\ \E m \in C14_Matching : \A i \in 1..Len(C14_Forms(dict[m + 1])) :
                                   C14_Forms(dict[m + 1])[i] # NQ
    /\ Range(candidates) = C14_Matching
    /\ evaluated = Cardinality(C14_Matching)

\* the entries the fallback scan reaches that evaluate_entry keeps
C15_FallbackMatches ==
    {k \in 1..MinOf(Len(dict), 5000) : Scored(dict[k]) # None}

\* C15: a call with a non-blank query returns the empty sequence only when
\* the fallback scan was run and matched nothing.
C15_EmptyOnlyAfterFallback ==
    (Returned /\ ~IsBlank(query) /\ results = <<>>) =>
        /\ path = "fallback"
        /\ C15_FallbackMatches = {}

\* the run of the string pool from offset up to its null byte, when there is
\* one
C16_Run(b, offset) ==
    SubSeq(b.JMDICT_STRINGS, offset + 1,
           (CHOOSE e \in (offset + 1)..Len(b.JMDICT_STRINGS) :
                /\ b.JMDICT_STRINGS[e] = 0
                /\ \A d \in (offset + 1)..(e - 1) : b.JMDICT_STRINGS[d] # 0) - 1)

\* the number a record holds in the four bytes that follow the first `at`
C16_Number(b, at) ==
    b.JMDICT_ENTRIES[at + 1] + b.JMDICT_ENTRIES[at + 2] * 256
        + b.JMDICT_ENTRIES[at + 3] * 256 * 256
        + b.JMDICT_ENTRIES[at + 4] * 256 * 256 * 256

\* the four count bytes of the record that starts after `at` bytes, summed
C16_Embedded(b, at) ==
    b.JMDICT_ENTRIES[at + 5] + b.JMDICT_ENTRIES[at + 6]
        + b.JMDICT_ENTRIES[at + 7] + b.JMDICT_ENTRIES[at + 8]

\* the blob invariant: the entry count, the entry offset table and the
\* category counts agree; every record lies in the entry bytes and every
\* index it embeds is a slot of the string offset table; every slot is the
\* start of a null-terminated run of well-formed UTF-8 in the string pool
C16_BlobInvariant(b) ==
    /\ Len(b.JMDICT_ENTRY_OFFSETS) = b.WORD_COUNT
    /\ Len(b.JMDICT_STRING_OFFSETS) =
           b.KANJI_STRINGS_COUNT + b.KANA_STRINGS_COUNT + b.ENGLISH_STRINGS_COUNT
               + b.POS_STRINGS_COUNT + b.ID_STRINGS_COUNT
    /\ \A n \in 1..Len(b.JMDICT_ENTRY_OFFSETS) :
          LET at == b.JMDICT_ENTRY_OFFSETS[n]
          IN  /\ at + 9 <= Len(b.JMDICT_ENTRIES)
              /\ at + 9 + 4 * C16_Embedded(b, at) <= Len(b.JMDICT_ENTRIES)
              /\ \A k \in 1..C16_Embedded(b, at) :
                    C16_Number(b, at + 9 + 4 * (k - 1)) < Len(b.JMDICT_STRING_OFFSETS)
              /\ C16_Number(b, at) < b.ID_STRINGS_COUNT
    /\ \A n \in 1..Len(b.JMDICT_STRING_OFFSETS) :
          LET offset == b.JMDICT_STRING_OFFSETS[n]
          IN  /\ \E e \in (offset + 1)..Len(b.JMDICT_STRINGS) : b.JMDICT_STRINGS[e] = 0
              /\ as_bytes(from_utf8_unchecked(C16_Run(b, offset))) = C16_Run(b, offset)

\* get_word_entry was called with an index below WORD_COUNT on arrays that
\* satisfy the blob invariant
C16_Case ==
    /\ probe.fn = "get_word_entry"
    /\ probe.done
    /\ probe.input < blob.WORD_COUNT
    /\ C16_BlobInvariant(blob)

\* where the record of the fetched entry starts
C16_At == blob.JMDICT_ENTRY_OFFSETS[probe.input + 1]

\* the four sequences of the returned entry, one after the other
C16_Strings ==
    probe.output.value.kanji \o probe.output.value.kana
        \o probe.output.value.english \o probe.output.value.pos

\* the call returned, the four sequences are as long as the count bytes of
\* the record say, and the k-th string is the run that the k-th embedded
\* index resolves to through the string offset table
C16_DecodedAsPacked ==
    /\ ~probe.output.fault
    /\ Len(probe.output.value.kanji) = blob.JMDICT_ENTRIES[C16_At + 5]
    /\ Len(probe.output.value.kana) = blob.JMDICT_ENTRIES[C16_At + 6]
    /\ Len(probe.output.value.english) = blob.JMDICT_ENTRIES[C16_At + 7]
    /\ Len(probe.output.value.pos) = blob.JMDICT_ENTRIES[C16_At + 8]
    /\ \A k \in 1..Len(C16_Strings) :
          as_bytes(C16_Strings[k]) =
              C16_Run(blob, blob.JMDICT_STRING_OFFSETS[
                                C16_Number(blob, C16_At + 9 + 4 * (k - 1)) + 1])

\* C16 as stated: for every index below WORD_COUNT over a blob that
\* satisfies the blob invariant, get_word_entry does not fault, returns
\* sequences as long as the four count bytes say, and each element is the
\* non-empty null-terminated string its embedded index resolves to.
C16_DecodesNonEmptyStrings ==
    C16_Case =>
        /\ C16_DecodedAsPacked
        /\ \A k \in 1..Len(C16_Strings) : C16_Strings[k] # <<>>

\* C16 amended: the same, each element being the null-terminated string its
\* embedded index resolves to, which is empty when the slot points at a null
\* byte.
C16_DecodesPackedStrings == C16_Case => C16_DecodedAsPacked

\* the second entry of a blob was fetched and came back with two kanji
\* forms, two glosses and two tags
C16_Witness ==
    /\ C16_Case
    /\ probe.input = 1
    /\ ~probe.output.fault
    /\ Len(probe.output.value.kanji) = 2
    /\ Len(probe.output.value.english) = 2
    /\ Len(probe.output.value.pos) = 2

\* some character of the classified string is in U+4E00..U+9FAF
C17_HasIdeograph == \E c \in Range(probe.input) : 19968 <= c /\ c <= 40879

\* some character of the classified string is in U+3040..U+309F (hiragana)
\* or U+30A0..U+30FF (katakana)
C17_HasKana ==
    \E c \in Range(probe.input) :
        (12352 <= c /\ c <= 12447) \/ (12448 <= c /\ c <= 12543)

C17_Classified == probe.fn = "detect_query_type" /\ probe.done

C18_Case ==
    /\ Returned
    /\ QueryType = "English"
    /\ index_read = "set"

\* the normalized query is a key of the gloss index
C18_ExactKey == NQ \in DOMAIN ENGLISH_INDEX.value

\* the keys that start with the normalized query and differ from it
C18_LongerKeys ==
    {word \in DOMAIN ENGLISH_INDEX.value : starts_with(word, NQ) /\ word # NQ}

\* the ids the English arm collects: those of the exact key, and those of the
\* longer keys only when there is no exact key
C18_Ids ==
    IF C18_ExactKey THEN Range(ENGLISH_INDEX.value[NQ])
    ELSE UNION {Range(ENGLISH_INDEX.value[word]) : word \in C18_LongerKeys}

\* C18 as stated: for an English query with the gloss index built, the
\* candidates are exactly the ids of the key equal to the normalized query
\* when there is one, and otherwise the union of the ids of the keys that
\* start with it.
C18_ExactElsePrefix ==
    C18_Case =>
        /\ Range(candidates) = C18_Ids
        /\ Len(candidates) = Cardinality(C18_Ids)

\* C18 amended: the candidates are those ids in ascending order, cut to the
\* first 1000.
C18_ExactElsePrefixUpToCap ==
    C18_Case =>
        /\ Range(candidates) \subseteq C18_Ids
        /\ Len(candidates) = MinOf(Cardinality(C18_Ids), 1000)
        /\ \A i \in 1..(Len(candidates) - 1) : candidates[i] < candidates[i + 1]
        /\ \A id \in C18_Ids \ Range(candidates) : candidates[Len(candidates)] < id

\* a query that is no key of the index took its candidates from two longer
\* keys
C18_Witness ==
    /\ C18_Case
    /\ ~C18_ExactKey
    /\ Cardinality(C18_LongerKeys) >= 2
    /\ Len(candidates) >= 2
    /\ Range(candidates) = C18_Ids

\* C19: whatever the class of the query and whether or not its index is
\* published, the sequence find_indexed_entries returns is strictly
\* ascending, so ordered and free of duplicates, and has at most 1000 ids.
C19_CandidatesAscendingCapped ==
    Returned =>
        /\ \A i, j \in 1..Len(candidates) : i < j => candidates[i] < candidates[j]
        /\ Len(candidates) <= 1000

\* the key equal to a Kanji query holds an id twice, and the candidates
\* taken from it and from a longer key hold every id once
C19_Witness ==
    /\ Returned
    /\ QueryType = "Kanji"
    /\ index_read = "set"
    /\ NQ \in DOMAIN KANJI_INDEX.value
    /\ \E i, j \in 1..Len(KANJI_INDEX.value[NQ]) :
          i < j /\ KANJI_INDEX.value[NQ][i] = KANJI_INDEX.value[NQ][j]
    /\ Cardinality(ScannedKeys(query, QueryType)) >= 2
    /\ Len(candidates) >= 3

\* how many entries the fallback loop ranges over
C20_Head == MinOf(Len(dict), 5000)

\* C20 as stated: a call answered by the fallback scan decoded and evaluated
\* every one of the first min(WORD_COUNT, 5000) entries.
C20_FallbackScansWholeHead ==
    path = "fallback" => (decoded = C20_Head /\ evaluated = C20_Head)

\* C20 amended: a call answered by the fallback scan decoded and evaluated
\* the first min(WORD_COUNT, 5000) entries in storage order up to the one
\* that gave the 200th match, and every one of them when fewer than 200
\* match.
C20_FallbackScansHeadUntil200 ==
    path = "fallback" =>
        /\ decoded = evaluated
        /\ IF Cardinality(C15_FallbackMatches) < 200
           THEN evaluated = C20_Head
           ELSE /\ evaluated \in C15_FallbackMatches
                /\ Cardinality({k \in C15_FallbackMatches : k <= evaluated}) = 200

\* a fallback scan over more than 200 matching entries stopped at the 200th
C20_Witness ==
    /\ path = "fallback"
    /\ Len(dict) > 200
    /\ evaluated = 200
    /\ Len(results) = 50

(***************************************************************************)
(* Properties of evaluate_entry, score_features and simple_edit_distance   *)
(***************************************************************************)
\* one of the match signals is present
C21_Signal(f) ==
    f.exact_form \/ f.exact_reading \/ f.prefix \/ f.gloss_hit \/ f.edit_distance # 0

\* what the arm of the query's class finds in an entry
C21_Matched(e) ==
    IF QueryType = "Kanji"
    THEN KanjiReadingLoop(e.kana, NQ, KanjiFormLoop(e.kanji, NQ, DefaultFeatures))
    ELSE IF QueryType = "Kana" THEN KanaLoop(e.kana, NQ, DefaultFeatures)
    ELSE GlossLoop(e.english, TRUE, NQ, DefaultFeatures)

\* C21: evaluate_entry returns None for an entry exactly when the entry has
\* none of exact_form, exact_reading, prefix, gloss_hit and its
\* edit_distance is 0; every entry of a search result carries at least one
\* of these signals.
C21_OnlySignalledSurface ==
    (Returned /\ path # "empty") =>
        /\ \A i \in 1..Len(dict) :
               (Scored(dict[i]) = None) <=> ~C21_Signal(C21_Matched(dict[i]))
        /\ \A k \in Pos :
               /\ Scored(results[k]) # None
               /\ C21_Signal(FeaturesOf(results[k]))

\* a fallback scan returned an entry whose only signal is its edit distance
\* and dropped an entry without any signal
C21_Witness ==
    /\ Returned
    /\ path = "fallback"
    /\ \E k \in Pos :
           LET f == FeaturesOf(results[k])
           IN  /\ f.edit_distance # 0
               /\ ~(f.exact_form \/ f.exact_reading \/ f.prefix \/ f.gloss_hit)
    /\ \E i \in 1..Len(dict) :
           /\ Scored(dict[i]) = None
           /\ \A k \in Pos : results[k] # dict[i]

\* a call of the named function has returned
Called(fn) == probe.fn = fn /\ probe.done

C22_Weight(b, w) == IF b THEN w ELSE 0

\* C22: for every feature vector the score is 250*exact_english +
\* 200*first_gloss + 100*exact_form + 95*exact_reading + 50*has_common +
\* 25*simple_form + 30*prefix + 10*(gloss_hit and not first_gloss) +
\* 5*shorter_lemma - 2*edit_distance.
C22_LinearScore ==
    Called("score_features") =>
        LET f == probe.input
        IN  probe.output =
                C22_Weight(f.exact_english, 250) + C22_Weight(f.first_gloss, 200)
                    + C22_Weight(f.exact_form, 100) + C22_Weight(f.exact_reading, 95)
                    + C22_Weight(f.has_common, 50) + C22_Weight(f.simple_form, 25)
                    + C22_Weight(f.prefix, 30)
                    + C22_Weight(f.gloss_hit /\ ~f.first_gloss, 10)
                    + C22_Weight(f.shorter_lemma, 5)
                    - 2 * f.edit_distance

\* a vector with every feature set and a distance was scored: the gloss_hit
\* term is cancelled by first_gloss and the distance is subtracted
C22_Witness ==
    /\ Called("score_features")
    /\ probe.input.exact_english /\ probe.input.first_gloss
    /\ probe.input.exact_form /\ probe.input.exact_reading
    /\ probe.input.has_common /\ probe.input.simple_form
    /\ probe.input.prefix /\ probe.input.gloss_hit
    /\ probe.input.shorter_lemma /\ probe.input.edit_distance = 2
    /\ probe.output = 751

\* evaluate_entry has returned a match for a query of the class
C23_MatchedAs(class) ==
    /\ Called("evaluate_entry")
    /\ detect_query_type(probe.input.query) = class
    /\ probe.output # None

\* the distances of the kana forms of the entry from the normalized query
C23_Distances ==
    LET kana == probe.input.entry.kana
    IN  [i \in 1..Len(kana) |->
            simple_edit_distance(to_lowercase(kana[i]),
                                 normalize_query(probe.input.query))]

\* C23 as stated: for a Kana query the edit_distance of an entry is the
\* least of the bounded distances of its kana forms from the normalized
\* query, in whatever order the forms are stored (a distance of 3, the cap,
\* taken as no distance at all).
C23_MinimumDistance ==
    C23_MatchedAs("Kana") =>
        LET near == {d \in Range(C23_Distances) : d <= 2}
        IN  probe.output[1].features.edit_distance =
                IF near = {} THEN 0 ELSE SetMin(near)

\* C23, amended: for a Kana query the edit_distance of an entry is the
\* distance of the first kana form, in storage order and before any form
\* equal to the normalized query, that lies within distance 2 of it, and 0
\* when there is no such form.
C23_FirstNearForm ==
    C23_MatchedAs("Kana") =>
        LET d == C23_Distances
            exact == {i \in 1..Len(d) : d[i] = 0}
            stop == IF exact = {} THEN Len(d) + 1 ELSE SetMin(exact)
            near == {i \in 1..(stop - 1) : d[i] <= 2}
        IN  probe.output[1].features.edit_distance =
                IF near = {} THEN 0 ELSE d[SetMin(near)]

\* an entry whose first reading is two characters off the query and whose
\* second reading is one character off was evaluated
C23_Witness ==
    /\ C23_MatchedAs("Kana")
    /\ probe.input.query = KN_eto
    /\ probe.input.entry.kana = <<KN_ado, KN_edo>>
    /\ probe.output[1].features.edit_distance = 2

C24_Abs(n) == IF n < 0 THEN 0 - n ELSE n

\* positions below the shorter length at which the two strings differ
C24_Differing(a, b) ==
    Cardinality({i \in 1..MinOf(Len(a), Len(b)) : a[i] # b[i]})

\* the distance of two strings whose lengths, measured by len, are no more
\* than 2 apart
C24_Distance(a, b, len_a, len_b) ==
    IF a = b THEN 0
    ELSE IF C24_Abs(len_a - len_b) > 2 THEN 3
    ELSE MinOf(3, C24_Differing(a, b) + C24_Abs(Len(a) - Len(b)))

\* C24 as stated: simple_edit_distance is symmetric, 0 for equal strings, 3
\* when the lengths in characters differ by more than 2, and otherwise
\* min(3, d + |len(a) - len(b)|), d the number of positions below the
\* shorter length at which the strings differ, also for kana strings whose
\* character counts differ by 1 or 2.
C24_CharLengthDistance ==
    Called("simple_edit_distance") =>
        LET a == probe.input.a
            b == probe.input.b
        IN  /\ probe.output = C24_Distance(a, b, CharCount(a), CharCount(b))
            /\ probe.output = simple_edit_distance(b, a)

\* C24, amended: simple_edit_distance is symmetric, 0 for equal strings, 3
\* when the lengths in bytes of the UTF-8 encodings differ by more than 2,
\* and otherwise min(3, d + the difference of the lengths in characters).
C24_ByteLengthDistance ==
    Called("simple_edit_distance") =>
        LET a == probe.input.a
            b == probe.input.b
        IN  /\ probe.output = C24_Distance(a, b, ByteLen(a), ByteLen(b))
            /\ probe.output = simple_edit_distance(b, a)

\* two kana strings one character apart in length were compared
C24_Witness ==
    /\ Called("simple_edit_distance")
    /\ probe.input.a = <<12360, 12392>>
    /\ probe.input.b = <<12360, 12392, 12360>>
    /\ probe.output = 3

\* the clauses of the glosses of the entry, trimmed and lowercased
C25_Clauses(e) ==
    UNION {{Trim(c) : c \in Range(split(to_lowercase(e.english[g]), 59))} :
               g \in 1..Len(e.english)}

\* C25: for an English query, whenever some semicolon-delimited clause of
\* some gloss of the entry, trimmed and lowercased, equals the normalized
\* query, evaluate_entry sets gloss_hit and exact_english, wherever the
\* clause stands.
C25_ExactClauseAnywhere ==
    (/\ Called("evaluate_entry")
     /\ detect_query_type(probe.input.query) = "English"
     /\ normalize_query(probe.input.query) \in C25_Clauses(probe.input.entry)) =>
        /\ probe.output # None
        /\ probe.output[1].features.gloss_hit
        /\ probe.output[1].features.exact_english

\* U+3044, the hiragana character i
C26_I == <<12356>>

\* C26: for every matched entry, simple_form is true exactly when the entry
\* has an "adj-i" tag and some kanji form ends in the hiragana character i,
\* or some kanji form has at most 2 characters or some kana form at most 4.
C26_SimpleFormByShape ==
    (Called("evaluate_entry") /\ probe.output # None) =>
        LET e == probe.input.entry
        IN  probe.output[1].features.simple_form <=>
                \/ /\ \E i \in 1..Len(e.pos) : contains(e.pos[i], S_adj_i)
                   /\ \E i \in 1..Len(e.kanji) : ends_with(e.kanji[i], C26_I)
                \/ \E i \in 1..Len(e.kanji) : CharCount(e.kanji[i]) <= 2
                \/ \E i \in 1..Len(e.kana) : CharCount(e.kana[i]) <= 4

(***************************************************************************)
(* Properties of a second call of build_search_indices                     *)
(***************************************************************************)
\* a call is under way, or has panicked, with all three locks already set:
\* a first call sets the gloss lock only on leaving these positions
C27_SecondCall ==
    /\ bpc \in {"start", "join_english", "panicked"}
    /\ ENGLISH_INDEX.set

\* C27: a call of build_search_indices made after a first call has returned
\* panics instead of replacing anything, and leaves the three published
\* indices exactly as the first call set them.
C27_SecondCallFaults ==
    [][C27_SecondCall =>
           /\ ENGLISH_INDEX = SetTo(build_english_index)
           /\ KANJI_INDEX = SetTo(build_kanji_index)
           /\ KANA_INDEX = SetTo(build_kana_index)
           /\ ENGLISH_INDEX' = ENGLISH_INDEX
           /\ KANJI_INDEX' = KANJI_INDEX
           /\ KANA_INDEX' = KANA_INDEX
           /\ bpc' \in {bpc, "join_english", "panicked"}
           /\ strategy = "sequential" => bpc' \in {bpc, "panicked"}]_vars

\* a second call has panicked under the native configuration after its
\* threads had built all three indices again
C27_Witness ==
    /\ bpc = "panicked"
    /\ strategy = "parallel"
    /\ english_handle.set /\ kanji_handle.set /\ kana_handle.set
    /\ ENGLISH_INDEX = SetTo(build_english_index)
    /\ KANJI_INDEX.set /\ KANA_INDEX.set
    /\ dict # <<>>

(***************************************************************************)
(* Properties of the terminal front end                                    *)
(***************************************************************************)
\* C28: after any sequence of key events handled by App::handle_input,
\* typed multi-byte characters included, cursor_pos stays within
\* [0, query.len()] and on a character boundary of query, and no insert,
\* remove, truncate, drain or split_at at cursor_pos panics.
C28_CursorOnBoundary ==
    app # NoApp =>
        /\ app.cursor_pos \in 0..ByteLen(app.query)
        /\ is_char_boundary(app.query, app.cursor_pos)
        /\ ~app.panicked

\* C29: after any sequence of key events, scroll < results.len() whenever
\* results is not empty, and scroll = 0 whenever results is empty, also
\* after the query has been edited down to empty.
C29_ScrollValid ==
    app # NoApp =>
        /\ app.results # <<>> => app.scroll < Len(app.results)
        /\ app.results = <<>> => app.scroll = 0

(***************************************************************************)
(* Properties of the code generator together with get_word_entry           *)
(***************************************************************************)
\* the words the generator packs, in the order in which it packs them
C30_Packed ==
    LET ordered == SelectSeq(jmdict.words, WordIsCommon)
                       \o SelectSeq(jmdict.words, LAMBDA w : ~WordIsCommon(w))
    IN  SubSeq(ordered, 1,
               IF jmdict.limit > 0 THEN MinOf(jmdict.limit, Len(ordered))
               ELSE Len(ordered))

\* the entry a word is expected to come back as
C30_EntryOf(w) ==
    WordEntry(w.id, Texts(w.kanji), Texts(w.kana), SenseGlosses(w.sense),
              SenseTags(w.sense), WordIsCommon(w))

\* each list of the word is short enough for its one-byte count
C30_Fits(w) ==
    /\ Len(w.kanji) <= 255
    /\ Len(w.kana) <= 255
    /\ Len(SenseGlosses(w.sense)) <= 255
    /\ Len(SenseTags(w.sense)) <= 255

\* C30 as stated: for every list of words packed by the code generator and
\* every word i of it, whatever its number of forms, glosses or tags,
\* get_word_entry(i) returns that word's id, its kanji forms, kana forms and
\* English glosses in their original order, the part-of-speech tags packed
\* for it, and its common flag.
C30_RoundTrip ==
    (Called("get_word_entry") /\ probe.input < Len(C30_Packed)) =>
        probe.output = Ok(C30_EntryOf(C30_Packed[probe.input + 1]))

\* C30, amended: the same for every packed word that has at most 255 kanji
\* forms, 255 kana forms, 255 English glosses and 255 tags, i counting the
\* words in the order in which the generator packs them.
C30_RoundTripWithinCounts ==
    (/\ Called("get_word_entry")
     /\ probe.input < Len(C30_Packed)
     /\ C30_Fits(C30_Packed[probe.input + 1])) =>
        probe.output = Ok(C30_EntryOf(C30_Packed[probe.input + 1]))

\* a word with two kanji forms, glosses in two senses and tags in its second
\* sense, given first and packed second behind a common word, came back
\* whole
C30_Witness ==
    /\ Called("get_word_entry")
    /\ jmdict.words = <<J_koya, J_inu>>
    /\ jmdict.limit = 0
    /\ probe.input = 1
    /\ probe.output = Ok(WordEntry(<<50>>, <<KJ_koya, KJ_inu>>, <<KN_inugoya>>,
                                   <<S_kennel, S_dog>>, <<S_noun, S_adj_i>>, FALSE))

====
